---- MODULE Spec2Model ----
(***************************************************************************)
(* UniPass: Participation Reconciliation & Integrity Engine.               *)
(*                                                                         *)
(* The store (tickets, attendance, certificates, participation roles,      *)
(* audit logs) is the committed content of the database.  Every request    *)
(* handler is one action: it reads the committed store, applies its        *)
(* session's pending changes and commits.  The specifications share the   *)
(* variables:                                                              *)
(*   Spec        handlers called one after the other, on the empty store   *)
(*               and on two stores an event under way has reached;         *)
(*   BatchSpec   bulk-resolve requests alone, with longer batches;          *)
(*   CorrectionSpec  the correcting requests alone;                        *)
(*   StatusSpec  the read-only resolvers applied to every store of a       *)
(*               bounded family (the resolvers are functions of the store);*)
(*   TrustSpec   the resolvers applied to students scanned on many days;   *)
(*   RaceSpec    two revocation requests running concurrently, each with   *)
(*               its own session, interleaved at their store accesses.     *)
(*   FraudSpec   the event-wide reads, verification and revocation on      *)
(*               events that hold role-based certificates;                 *)
(*   UploadSpec  fraud detection on events with imported attendance;       *)
(*   HistorySpec the change history on events with a long ledger;          *)
(*   ResolveSpec bulk-resolve requests for students with several           *)
(*               certificates;                                             *)
(*   AddRaceSpec two bulk-resolve requests of add_attendance actions       *)
(*               running concurrently.                                     *)
(***************************************************************************)
EXTENDS Integers, Sequences, FiniteSets, TLC

(***************************************************************************)
(* Bounds of the model.                                                    *)
(***************************************************************************)
\* Attendance rows a run inserts
MaxAtt == 2
\* AuditLog rows a run inserts
MaxAudit == 2
\* actions in one bulk-resolve request: of Spec, where the requests
\* interleave with every other handler, and of BatchSpec
MaxBatch == 1
BatchLen == 3
\* StatusSpec: certificates and days of the event in the stores it draws
MaxCerts == 2
MaxDays == 2
\* TrustSpec: scans of one student, one per day of the event
MaxScans == 5
\* FraudSpec: role-based certificates of the event
MaxRoleCerts == 2
\* UploadSpec: bulk_upload rows stored within one minute
MaxUploads == 101
\* HistorySpec: audit rows written after the changes to the records of s1
MaxLedger == 50
\* AddRaceSpec: actions in each of the two requests
RaceBatchLen == 2

(***************************************************************************)
(* Values.                                                                 *)
(***************************************************************************)
Students == {"s1", "s2"}
\* Spec: the student the requests name (s2's rows are bystanders)
Callers == {"s1"}
NoStudent == "None"
\* current_user.id of the requests (an ADMIN: every route admits it)
CurrentUser == 1
NoUser == 0
NoTime == 0
NoDay == 0
NoReason == "None"
Reasons == {"r1"}
DefaultBulkReason == "Bulk conflict resolution"
\* the clock when the model starts; the times an initial store holds are
\* earlier
StartTime == 2
PastTime == 1

\* class CanonicalStatus
REGISTERED_ONLY == "REGISTERED_ONLY"
ATTENDED_NO_CERTIFICATE == "ATTENDED_NO_CERTIFICATE"
CERTIFIED == "CERTIFIED"
INVALIDATED == "INVALIDATED"
UNKNOWN == "UNKNOWN"

\* BulkResolutionAction.action, with one value the handler does not know
BulkActions == {"add_attendance", "revoke_certificate", "ignore",
                "manual_review", "delete"}
BulkItems(prns) == [student_prn : prns, action : BulkActions]
Batches(prns, n) == UNION {[1..k -> BulkItems(prns)] : k \in 0..n}

VARIABLES
    eventExists,    \* the Event row is present
    totalDays,      \* Event.total_days
    tickets,        \* students holding a Ticket of the event
    attendance,     \* set of Attendance rows
    certificates,   \* set of Certificate rows
    roles,          \* set of ParticipationRole rows
    auditLogs,      \* sequence of AuditLog rows, in insertion (id) order
    nextId,         \* next primary keys: [att, cert, role]
    now,            \* the clock read by datetime.now / utcnow
    response,       \* the exchange just served: the request's inputs and
                    \* what it returned; NoResponse once the caller has
                    \* taken it
    caps,           \* how many rows the run may still insert up to:
                    \* [audit, att], fixed by the initial store
    sessions        \* RaceSpec: the in-flight requests, one session each

vars == <<eventExists, totalDays, tickets, attendance, certificates, roles,
          auditLogs, nextId, now, response, caps, sessions>>

store == <<eventExists, totalDays, tickets, attendance, certificates, roles,
           auditLogs, nextId, now>>

NoResponse == [op |-> "none"]
NoSessions == <<>>
NoCertificate == [id |-> 0]

(***************************************************************************)
(* Rows.                                                                   *)
(***************************************************************************)
Certificate(id, prn, role) ==
    [id |-> id, student_prn |-> prn, role_type |-> role,
     revoked |-> FALSE, revoked_at |-> NoTime, revoked_by |-> NoUser,
     revocation_reason |-> NoReason]

Attendance(id, prn, day, source, scanner) ==
    [id |-> id, student_prn |-> prn, day_number |-> day,
     scan_source |-> source, scanner_id |-> scanner,
     invalidated |-> FALSE, invalidated_at |-> NoTime,
     invalidated_by |-> NoUser, invalidation_reason |-> NoReason]

ParticipationRole(id, prn, role) ==
    [id |-> id, student_prn |-> prn, role |-> role]

AuditLog(user, action, prn, ref) ==
    [user_id |-> user, action_type |-> action, student_prn |-> prn,
     ref |-> ref]

(***************************************************************************)
(* Queries of the reconciliation service.                                  *)
(***************************************************************************)
\* db.query(Ticket).filter_by(event_id, student_prn).first()
HasTicket(prn) == prn \in tickets

\* db.query(Attendance).filter_by(event_id, student_prn, invalidated=False).all()
ActiveAttendance(prn) ==
    {a \in attendance : a.student_prn = prn /\ ~a.invalidated}

\* db.query(Certificate).filter_by(event_id, student_prn): the rows .first()
\* may return.  The query has no ORDER BY, so any matching row can come first.
CertificatesOf(prn) == {c \in certificates : c.student_prn = prn}

\* _compute_status(ticket, attendance, certificate, event); certificate is a
\* row or NoCertificate
compute_status(ticket, att, certificate) ==
    IF certificate.id # 0 /\ certificate.revoked THEN INVALIDATED
    ELSE IF certificate.id # 0 /\ ~certificate.revoked THEN CERTIFIED
    ELSE IF att # {} THEN ATTENDED_NO_CERTIFICATE
    ELSE IF ticket THEN REGISTERED_ONLY
    ELSE UNKNOWN

\* class ConflictType, with the severity _detect_conflicts gives each
CERTIFICATE_WITHOUT_ATTENDANCE ==
    [type |-> "CERTIFICATE_WITHOUT_ATTENDANCE", severity |-> "HIGH"]
CERTIFICATE_WITHOUT_REGISTRATION ==
    [type |-> "CERTIFICATE_WITHOUT_REGISTRATION", severity |-> "MEDIUM"]
ATTENDANCE_WITHOUT_REGISTRATION ==
    [type |-> "ATTENDANCE_WITHOUT_REGISTRATION", severity |-> "LOW"]
MULTIPLE_SCANS_SAME_DAY ==
    [type |-> "MULTIPLE_SCANS_SAME_DAY", severity |-> "MEDIUM"]
ADMIN_OVERRIDE_CONFLICT ==
    [type |-> "ADMIN_OVERRIDE_CONFLICT", severity |-> "LOW"]

\* `day = att.day_number or 1`
DayOrFirst(a) == IF a.day_number = NoDay THEN 1 ELSE a.day_number

RECURSIVE MultipleScans(_)
\* Conflict 4: one MULTIPLE_SCANS_SAME_DAY per day of `days` (the days with
\* more than one row); the dict keeps the days in the order the rows came
\* back, and the entries differ by their message only
MultipleScans(days) ==
    IF days = {} THEN <<>>
    ELSE LET day == CHOOSE d \in days : \A e \in days : d <= e
         IN <<MULTIPLE_SCANS_SAME_DAY>> \o MultipleScans(days \ {day})

\* _detect_conflicts(event_id, student_prn, ticket, attendance, certificate)
detect_conflicts(ticket, att, certificate) ==
    LET active == certificate.id # 0 /\ ~certificate.revoked
        day_counts == [d \in {DayOrFirst(a) : a \in att} |->
                          Cardinality({a \in att : DayOrFirst(a) = d})]
        qr_scans == {a \in att : a.scan_source = "qr_scan"}
        admin_overrides == {a \in att : a.scan_source = "admin_override"}
    IN (IF active /\ att = {}
        THEN <<CERTIFICATE_WITHOUT_ATTENDANCE>> ELSE <<>>)
       \o (IF active /\ ~ticket
           THEN <<CERTIFICATE_WITHOUT_REGISTRATION>> ELSE <<>>)
       \o (IF att # {} /\ ~ticket
           THEN <<ATTENDANCE_WITHOUT_REGISTRATION>> ELSE <<>>)
       \o MultipleScans({d \in DOMAIN day_counts : day_counts[d] > 1})
       \o (IF qr_scans # {} /\ admin_overrides # {}
           THEN <<ADMIN_OVERRIDE_CONFLICT>> ELSE <<>>)

RECURSIVE ConflictPenalty(_)
\* the loop `for conflict in conflicts` of _compute_trust_score
ConflictPenalty(conflicts) ==
    IF conflicts = <<>> THEN 0
    ELSE (IF Head(conflicts).severity = "HIGH" THEN 20
          ELSE IF Head(conflicts).severity = "MEDIUM" THEN 10
          ELSE 5) + ConflictPenalty(Tail(conflicts))

Min(a, b) == IF a <= b THEN a ELSE b
Max(a, b) == IF a >= b THEN a ELSE b

\* a variant of the last line of _compute_trust_score: no clamp
Unclamped(score) == score

\* `max(0, min(100, score))`
Clamped(score) == Max(0, Min(100, score))

\* _compute_trust_score(ticket, attendance, certificate, conflicts)
compute_trust_score(ticket, att, conflicts) ==
    LET qr_scans == {a \in att : a.scan_source = "qr_scan"}
    IN Clamped(100 - (IF ~ticket THEN 10 ELSE 0)
                   - (IF att = {} THEN 30 ELSE 0)
                   - ConflictPenalty(conflicts)
                   + (IF att # {} THEN Min(Cardinality(qr_scans) * 5, 20)
                      ELSE 0))

\* the dict get_canonical_status returns when its certificate query yields
\* `certificate`
canonical_status_dict(prn, certificate) ==
    LET ticket == HasTicket(prn)
        att == ActiveAttendance(prn)
        conflicts == detect_conflicts(ticket, att, certificate)
    IN [op |-> "status",
        conflicts |-> conflicts,
        trust_score |-> compute_trust_score(ticket, att, conflicts),
        student_prn |-> prn,
        canonical_status |-> compute_status(ticket, att, certificate),
        has_registration |-> ticket,
        has_attendance |-> Cardinality(att) > 0,
        has_certificate |-> (certificate.id # 0 /\ ~certificate.revoked),
        attendance_count |-> Cardinality(att),
        days_attended |-> Cardinality({a.day_number : a \in att}),
        total_days_required |-> IF eventExists THEN totalDays ELSE 1,
        certificate_revoked |->
            IF certificate.id # 0 THEN certificate.revoked ELSE FALSE]

\* what the certificate query of get_canonical_status can yield
CertificateQuery(prn) ==
    IF CertificatesOf(prn) = {} THEN {NoCertificate} ELSE CertificatesOf(prn)

\* the dicts get_canonical_status can return on the store as it is
StatusResults(prn) ==
    {canonical_status_dict(prn, certificate) :
        certificate \in CertificateQuery(prn)}

\* GET /ps1/participation/status/{event_id}/{student_prn}
get_canonical_status(prn) ==
    /\ response = NoResponse
    /\ response' \in StatusResults(prn)
    /\ UNCHANGED <<store, caps, sessions>>

(***************************************************************************)
(* Helpers over rows.                                                      *)
(***************************************************************************)
\* the rows of `rows` with the row of primary key `row.id` replaced by `row`
Updated(rows, row) == {IF r.id = row.id THEN row ELSE r : r \in rows}

RowById(rows, id) == CHOOSE r \in rows : r.id = id

Ids(rows) == {r.id : r \in rows}

(***************************************************************************)
(* Single-item corrections (routes/ps1.py).                                *)
(***************************************************************************)
\* variants of the guard of revoke_certificate: one that is missing, one
\* that rejects only a certificate somebody else revoked
NeverRevoked(certificate) == FALSE
RevokedByAnother(certificate) ==
    certificate.revoked /\ certificate.revoked_by # CurrentUser

\* the guard `if certificate.revoked: raise 400`
AlreadyRevoked(certificate) == certificate.revoked

\* the four assignments that revoke a certificate
Revoked(certificate, at, reason) ==
    [certificate EXCEPT !.revoked = TRUE, !.revoked_at = at,
                        !.revoked_by = CurrentUser,
                        !.revocation_reason = reason]

\* the audit row of a single revocation
RevocationAudit(certificate) ==
    AuditLog(CurrentUser, "certificate_revoked", certificate.student_prn,
             certificate.id)

\* POST /ps1/certificate/{certificate_id}/revoke
revoke_certificate(certificate_id, reason) ==
    /\ response = NoResponse
    /\ IF certificate_id \notin Ids(certificates)
       THEN /\ response' = [op |-> "revoke", certificate_id |-> certificate_id,
                            status |-> 404]
            /\ UNCHANGED store
       ELSE LET certificate == RowById(certificates, certificate_id) IN
            IF AlreadyRevoked(certificate)
            THEN /\ response' = [op |-> "revoke",
                                 certificate_id |-> certificate_id,
                                 status |-> 400]
                 /\ UNCHANGED store
            ELSE /\ Len(auditLogs) < caps.audit
                 /\ certificates' = Updated(certificates,
                        Revoked(certificate, now, reason))
                 /\ auditLogs' = Append(auditLogs,
                        RevocationAudit(certificate))
                 /\ now' = now + 1
                 /\ response' = [op |-> "revoke",
                                 certificate_id |-> certificate_id,
                                 status |-> 200, revoked_at |-> now]
                 /\ UNCHANGED <<eventExists, totalDays, tickets, attendance,
                                roles, nextId>>
    /\ UNCHANGED <<caps, sessions>>

\* a variant of the guard of invalidate_attendance: the guard is missing
NeverInvalidated(att) == FALSE

\* the guard `if attendance.invalidated: raise 400`
AlreadyInvalidated(att) == att.invalidated

\* POST /ps1/attendance/{attendance_id}/invalidate
invalidate_attendance(attendance_id, reason) ==
    /\ response = NoResponse
    /\ IF attendance_id \notin Ids(attendance)
       THEN /\ response' = [op |-> "invalidate",
                            attendance_id |-> attendance_id, status |-> 404]
            /\ UNCHANGED store
       ELSE LET att == RowById(attendance, attendance_id) IN
            IF AlreadyInvalidated(att)
            THEN /\ response' = [op |-> "invalidate",
                                 attendance_id |-> attendance_id,
                                 status |-> 400]
                 /\ UNCHANGED store
            ELSE /\ Len(auditLogs) < caps.audit
                 /\ attendance' = Updated(attendance,
                        [att EXCEPT !.invalidated = TRUE,
                                    !.invalidated_at = now,
                                    !.invalidated_by = CurrentUser,
                                    !.invalidation_reason = reason])
                 /\ auditLogs' = Append(auditLogs,
                        AuditLog(CurrentUser, "attendance_invalidated",
                                 att.student_prn, attendance_id))
                 /\ now' = now + 1
                 /\ response' = [op |-> "invalidate",
                                 attendance_id |-> attendance_id,
                                 status |-> 200, invalidated_at |-> now]
                 /\ UNCHANGED <<eventExists, totalDays, tickets, certificates,
                                roles, nextId>>
    /\ UNCHANGED <<caps, sessions>>

\* RoleType[request.role.upper()]
RoleTypes == {"VOLUNTEER"}
RoleInputs == RoleTypes \cup {"BOGUS"}

\* POST /ps1/roles/{event_id}/assign: the role row is committed, then the
\* audit row in a second commit
assign_role(prn, role) ==
    /\ response = NoResponse
    /\ IF role \notin RoleTypes
       THEN /\ response' = [op |-> "assign_role", status |-> 400]
            /\ UNCHANGED store
       ELSE IF ~eventExists
       THEN \* participation_roles.event_id is a foreign key: IntegrityError
            /\ response' = [op |-> "assign_role", status |-> 500]
            /\ UNCHANGED store
       ELSE /\ Len(auditLogs) < caps.audit
            /\ roles' = roles \cup {ParticipationRole(nextId.role, prn, role)}
            /\ nextId' = [nextId EXCEPT !.role = @ + 1]
            /\ auditLogs' = Append(auditLogs,
                   AuditLog(CurrentUser, "role_assigned", prn, nextId.role))
            /\ response' = [op |-> "assign_role", status |-> 200,
                            id |-> nextId.role]
            /\ UNCHANGED <<eventExists, totalDays, tickets, attendance,
                           certificates, now>>
    /\ UNCHANGED <<caps, sessions>>

\* DELETE /ps1/roles/{role_id}
remove_role(role_id) ==
    /\ response = NoResponse
    /\ IF role_id \notin Ids(roles)
       THEN /\ response' = [op |-> "remove_role", status |-> 404]
            /\ UNCHANGED store
       ELSE LET role == RowById(roles, role_id) IN
            /\ Len(auditLogs) < caps.audit
            /\ auditLogs' = Append(auditLogs,
                   AuditLog(CurrentUser, "role_removed", role.student_prn,
                            role_id))
            /\ roles' = roles \ {role}
            /\ response' = [op |-> "remove_role", status |-> 200]
            /\ UNCHANGED <<eventExists, totalDays, tickets, attendance,
                           certificates, nextId, now>>
    /\ UNCHANGED <<caps, sessions>>

(***************************************************************************)
(* The workflows that create and delete the rows.                          *)
(***************************************************************************)
\* POST /register/{event_id}
register_for_event(prn) ==
    /\ response = NoResponse
    /\ IF ~eventExists
       THEN /\ response' = [op |-> "register", status |-> 404]
            /\ UNCHANGED store
       ELSE IF prn \in tickets
       THEN /\ response' = [op |-> "register", status |-> 400]
            /\ UNCHANGED store
       ELSE /\ tickets' = tickets \cup {prn}
            /\ response' = [op |-> "register", status |-> 200]
            /\ UNCHANGED <<eventExists, totalDays, attendance, certificates,
                           roles, auditLogs, nextId, now>>
    /\ UNCHANGED <<caps, sessions>>

\* POST /scan/ with the token of prn's ticket, on day current_day of the
\* event: the attendance row is committed, then create_audit_log commits
\* the qr_scanned row
scan_qr(prn, current_day) ==
    /\ response = NoResponse
    /\ IF prn \notin tickets \/ ~eventExists
       THEN /\ response' = [op |-> "scan", status |-> 404]
            /\ UNCHANGED store
       ELSE IF \E a \in attendance : /\ a.student_prn = prn
                                     /\ a.day_number = current_day
       THEN /\ response' = [op |-> "scan", status |-> 200,
                            result |-> "already_scanned"]
            /\ UNCHANGED store
       ELSE /\ nextId.att <= caps.att
            /\ Len(auditLogs) < caps.audit
            /\ attendance' = attendance \cup
                   {Attendance(nextId.att, prn, current_day, "qr_scan",
                               CurrentUser)}
            /\ nextId' = [nextId EXCEPT !.att = @ + 1]
            /\ auditLogs' = Append(auditLogs,
                   AuditLog(CurrentUser, "qr_scanned", prn, nextId.att))
            /\ response' = [op |-> "scan", status |-> 200,
                            result |-> "success"]
            /\ UNCHANGED <<eventExists, totalDays, tickets, certificates,
                           roles, now>>
    /\ UNCHANGED <<caps, sessions>>

\* POST /attendance/event/{event_id}/override: the row takes the column
\* defaults (scan_source qr_scan, no day_number, no scanner_id); no audit
\* row is written
override_attendance(prn) ==
    /\ response = NoResponse
    /\ IF ~eventExists \/ prn \notin tickets
       THEN /\ response' = [op |-> "override", status |-> 404]
            /\ UNCHANGED store
       ELSE IF \E a \in attendance : a.student_prn = prn
       THEN /\ response' = [op |-> "override", status |-> 200,
                            result |-> "already_marked"]
            /\ UNCHANGED store
       ELSE /\ nextId.att <= caps.att
            /\ attendance' = attendance \cup
                   {Attendance(nextId.att, prn, NoDay, "qr_scan", NoUser)}
            /\ nextId' = [nextId EXCEPT !.att = @ + 1]
            /\ response' = [op |-> "override", status |-> 200,
                            result |-> "success"]
            /\ UNCHANGED <<eventExists, totalDays, tickets, certificates,
                           roles, auditLogs, now>>
    /\ UNCHANGED <<caps, sessions>>

\* get_eligible_students: count(distinct day_number) >= total_days over all
\* the attendance rows of the student (NULL day_number is not counted)
EligibleStudents ==
    {prn \in Students :
        Cardinality({a.day_number : a \in {b \in attendance :
                        b.student_prn = prn /\ b.day_number # NoDay}})
            >= totalDays
        /\ \E a \in attendance : a.student_prn = prn}

\* get_students_without_certificates
StudentsWithoutCertificates ==
    {prn \in EligibleStudents : \A c \in certificates : c.student_prn # prn}

RECURSIVE IssueTo(_, _)
\* the loop of issue_certificates: one attendee certificate per student
IssueTo(prns, firstId) ==
    IF prns = {} THEN {}
    ELSE LET prn == CHOOSE x \in prns : TRUE
         IN {Certificate(firstId, prn, "attendee")}
                \cup IssueTo(prns \ {prn}, firstId + 1)

\* POST /certificates/event/{event_id}/push
push_certificates ==
    /\ response = NoResponse
    /\ IF ~eventExists
       THEN /\ response' = [op |-> "push", status |-> 404]
            /\ UNCHANGED store
       ELSE IF StudentsWithoutCertificates = {}
       THEN /\ response' = [op |-> "push", status |-> 200, issued |-> 0]
            /\ UNCHANGED store
       ELSE /\ Len(auditLogs) < caps.audit
            /\ certificates' = certificates \cup
                   IssueTo(StudentsWithoutCertificates, nextId.cert)
            /\ nextId' = [nextId EXCEPT !.cert =
                              @ + Cardinality(StudentsWithoutCertificates)]
            /\ auditLogs' = Append(auditLogs,
                   AuditLog(CurrentUser, "certificates_pushed", NoStudent, 0))
            /\ response' = [op |-> "push", status |-> 200,
                            issued |-> Cardinality(StudentsWithoutCertificates)]
            /\ UNCHANGED <<eventExists, totalDays, tickets, attendance,
                           roles, now>>
    /\ UNCHANGED <<caps, sessions>>

\* DELETE /tickets/{ticket_id}: the attendance rows of the ticket go with it
delete_ticket(prn) ==
    /\ response = NoResponse
    /\ IF prn \notin tickets
       THEN /\ response' = [op |-> "delete_ticket", status |-> 404]
            /\ UNCHANGED store
       ELSE /\ attendance' = {a \in attendance : a.student_prn # prn}
            /\ tickets' = tickets \ {prn}
            /\ response' = [op |-> "delete_ticket", status |-> 200]
            /\ UNCHANGED <<eventExists, totalDays, certificates, roles,
                           auditLogs, nextId, now>>
    /\ UNCHANGED <<caps, sessions>>

\* DELETE /events/{event_id}: create_audit_log commits event_deleted, then
\* db.delete(event) cascades to Event.audit_logs (cascade="all,
\* delete-orphan") and, in the database, to participation_roles; tickets and
\* certificates reference the event without a cascade, so the delete fails
\* while any of them exists
delete_event ==
    /\ response = NoResponse
    /\ IF ~eventExists
       THEN /\ response' = [op |-> "delete_event", status |-> 404]
            /\ UNCHANGED store
       ELSE /\ Len(auditLogs) < caps.audit
            /\ IF tickets # {} \/ certificates # {}
               THEN /\ auditLogs' = Append(auditLogs,
                          AuditLog(CurrentUser, "event_deleted", NoStudent, 0))
                    /\ response' = [op |-> "delete_event", status |-> 500]
                    /\ UNCHANGED <<eventExists, roles>>
               ELSE /\ auditLogs' = <<>>
                    /\ roles' = {}
                    /\ eventExists' = FALSE
                    /\ response' = [op |-> "delete_event", status |-> 200]
            /\ UNCHANGED <<totalDays, tickets, attendance, certificates,
                           nextId, now>>
    /\ UNCHANGED <<caps, sessions>>

(***************************************************************************)
(* Bulk conflict resolution (routes/ps1.py, bulk_resolve_conflicts).       *)
(* The handler's session has autoflush off (db/database.py) and the loop   *)
(* never flushes: every query of the loop reads the committed rows, the    *)
(* rows added by db.add stay pending, and a row modified earlier in the    *)
(* loop is returned again by a query that matches its committed columns.   *)
(***************************************************************************)
\* results, with the pending work of the session
NewResults(n) ==
    [total_actions |-> n, successful |-> 0, failed |-> 0, details |-> <<>>,
     added |-> <<>>, dirty |-> {}, audit |-> <<>>]

\* a variant of the query of the revoke_certificate branch: the filter on
\* student_prn is missing
ActiveCertificatesOfEvent(prn) == {c \in certificates : ~c.revoked}

\* the certificates the query of the revoke_certificate branch may return:
\* filter_by(event_id, student_prn, revoked=False).first()
ActiveCertificatesOf(prn) ==
    {c \in certificates : c.student_prn = prn /\ ~c.revoked}

\* a variant of the add_attendance branch: the attempt that fails for want
\* of a ticket is written to the audit log too
BulkAddLogsFailure(res, prn) ==
    IF prn \notin tickets
    THEN {[res EXCEPT !.details = Append(@,
                [student_prn |-> prn, action |-> "add_attendance",
                 status |-> "failed", reason |-> "No registration found"]),
            !.audit = Append(@, AuditLog(CurrentUser,
                                         "bulk_attendance_failed", prn, 0)),
            !.failed = @ + 1]}
    ELSE IF ActiveAttendance(prn) # {}
    THEN {[res EXCEPT !.successful = @ + 1]}
    ELSE {[res EXCEPT
            !.added = Append(@, [student_prn |-> prn, day_number |-> 1,
                                 scan_source |-> "admin_override",
                                 scanner_id |-> CurrentUser]),
            !.audit = Append(@, AuditLog(CurrentUser, "bulk_attendance_added",
                                         prn, 0)),
            !.details = Append(@, [student_prn |-> prn,
                                   action |-> "add_attendance",
                                   status |-> "success"]),
            !.successful = @ + 1]}

\* action == "add_attendance"
BulkAddAttendance(res, prn) ==
    IF prn \notin tickets
    THEN {[res EXCEPT !.details = Append(@,
                [student_prn |-> prn, action |-> "add_attendance",
                 status |-> "failed", reason |-> "No registration found"]),
            !.failed = @ + 1]}
    ELSE IF ActiveAttendance(prn) # {}
    THEN {[res EXCEPT !.successful = @ + 1]}
    ELSE {[res EXCEPT
            !.added = Append(@, [student_prn |-> prn, day_number |-> 1,
                                 scan_source |-> "admin_override",
                                 scanner_id |-> CurrentUser]),
            !.audit = Append(@, AuditLog(CurrentUser, "bulk_attendance_added",
                                         prn, 0)),
            !.details = Append(@, [student_prn |-> prn,
                                   action |-> "add_attendance",
                                   status |-> "success"]),
            !.successful = @ + 1]}

\* the audit row of a revocation of the bulk handler
BulkRevocationAudit(prn) ==
    AuditLog(CurrentUser, "bulk_certificate_revoked", prn, 0)

\* a variant of the revoke_certificate branch: a failed revocation rolls
\* the session back, and the pending work of the earlier actions with it
BulkRevokeRollsBack(res, prn) ==
    IF ActiveCertificatesOf(prn) = {}
    THEN {[res EXCEPT !.failed = @ + 1, !.added = <<>>, !.dirty = {},
                      !.audit = <<>>]}
    ELSE {[res EXCEPT
            !.dirty = {d \in @ : d.id # c.id} \cup
                      {Revoked(c, now, DefaultBulkReason)},
            !.audit = Append(@, BulkRevocationAudit(prn)),
            !.details = Append(@, [student_prn |-> prn,
                                   action |-> "revoke_certificate",
                                   status |-> "success"]),
            !.successful = @ + 1]
          : c \in ActiveCertificatesOf(prn)}

\* action == "revoke_certificate"
BulkRevokeCertificate(res, prn) ==
    IF ActiveCertificatesOf(prn) = {}
    THEN {[res EXCEPT !.failed = @ + 1]}
    ELSE {[res EXCEPT
            !.dirty = {d \in @ : d.id # c.id} \cup
                      {Revoked(c, now, DefaultBulkReason)},
            !.audit = Append(@, BulkRevocationAudit(prn)),
            !.details = Append(@, [student_prn |-> prn,
                                   action |-> "revoke_certificate",
                                   status |-> "success"]),
            !.successful = @ + 1]
          : c \in ActiveCertificatesOf(prn)}

\* a variant of the ignore / manual_review branch: the decision is counted
\* and its audit row never added to the session
BulkDecisionUnrecorded(res, prn, action) ==
    {[res EXCEPT !.successful = @ + 1]}

\* action in ["ignore", "manual_review"]
BulkRecordDecision(res, prn, action) ==
    {[res EXCEPT
        !.audit = Append(@, AuditLog(CurrentUser,
                     IF action = "ignore" THEN "bulk_ignore"
                                          ELSE "bulk_manual_review", prn, 0)),
        !.successful = @ + 1]}

\* one iteration of `for action_item in request.actions`: the results it
\* can leave
BulkApply(res, item) ==
    IF item.action = "add_attendance"
    THEN BulkAddAttendance(res, item.student_prn)
    ELSE IF item.action = "revoke_certificate"
    THEN BulkRevokeCertificate(res, item.student_prn)
    ELSE IF item.action \in {"ignore", "manual_review"}
    THEN BulkRecordDecision(res, item.student_prn, item.action)
    ELSE {[res EXCEPT !.failed = @ + 1]}

RECURSIVE BulkLoop(_, _)
BulkLoop(actions, results) ==
    IF actions = <<>> THEN results
    ELSE BulkLoop(Tail(actions),
                  UNION {BulkApply(res, Head(actions)) : res \in results})

\* a variant of the add_attendance branch: the row is built and never
\* added to the session
NothingFlushed(added) == {}

\* the Attendance rows the flush of the commit inserts for the pending adds
FlushedAttendance(added) ==
    {Attendance(nextId.att + i - 1, added[i].student_prn, added[i].day_number,
                added[i].scan_source, added[i].scanner_id)
        : i \in 1..Len(added)}

\* the certificates after the flush has written the modified rows
FlushedCertificates(dirty) ==
    {IF \E d \in dirty : d.id = c.id
     THEN CHOOSE d \in dirty : d.id = c.id ELSE c : c \in certificates}

\* what BulkResolutionResponse(**results) carries
BulkResponse(res) ==
    [status |-> 200, total_actions |-> res.total_actions,
     successful |-> res.successful, failed |-> res.failed,
     details |-> res.details]

\* the exchange of a bulk-resolve request: the actions sent, what came back
BulkExchange(actions, returned) ==
    [op |-> "bulk", actions |-> actions] @@ returned

\* POST /ps1/conflicts/{event_id}/bulk-resolve; commitOk: whether the
\* db.commit() that follows the loop succeeds
bulk_resolve_conflicts(actions, commitOk) ==
    /\ response = NoResponse
    /\ IF ~eventExists
       THEN /\ response' = BulkExchange(actions, [status |-> 404])
            /\ UNCHANGED store
       ELSE \E res \in BulkLoop(actions, {NewResults(Len(actions))}) :
            IF ~commitOk
            THEN \* db.rollback(); raise HTTPException(500)
                 /\ response' = BulkExchange(actions, [status |-> 500])
                 /\ UNCHANGED store
            ELSE /\ Len(auditLogs) + Len(res.audit) <= caps.audit
                 /\ nextId.att + Len(res.added) <= caps.att + 1
                 /\ attendance' = attendance \cup FlushedAttendance(res.added)
                 /\ certificates' = FlushedCertificates(res.dirty)
                 /\ auditLogs' = auditLogs \o res.audit
                 /\ nextId' = [nextId EXCEPT !.att = @ + Len(res.added)]
                 /\ now' = IF res.dirty # {} THEN now + 1 ELSE now
                 /\ response' = BulkExchange(actions, BulkResponse(res))
                 /\ UNCHANGED <<eventExists, totalDays, tickets, roles>>
    /\ UNCHANGED <<caps, sessions>>

(***************************************************************************)
(* Spec: the handlers, one request after the other.  The run starts on the *)
(* empty store of a one-day event, or on a store the event reaches later:  *)
(*   RegisteredStore register s1; register s2; scan s2                     *)
(*   CertifiedStore  register s1; register s2; scan s1; scan s2; push      *)
(***************************************************************************)
EmptyStore ==
    [tickets |-> {}, attendance |-> {}, certificates |-> {},
     auditLogs |-> <<>>, nextId |-> [att |-> 1, cert |-> 1, role |-> 1]]

RegisteredStore ==
    [tickets |-> {"s1", "s2"},
     attendance |-> {Attendance(1, "s2", 1, "qr_scan", CurrentUser)},
     certificates |-> {},
     auditLogs |-> <<AuditLog(CurrentUser, "qr_scanned", "s2", 1)>>,
     nextId |-> [att |-> 2, cert |-> 1, role |-> 1]]

CertifiedStore ==
    [tickets |-> {"s1", "s2"},
     attendance |-> {Attendance(1, "s1", 1, "qr_scan", CurrentUser),
                     Attendance(2, "s2", 1, "qr_scan", CurrentUser)},
     certificates |-> {Certificate(1, "s1", "attendee"),
                       Certificate(2, "s2", "attendee")},
     auditLogs |-> <<AuditLog(CurrentUser, "qr_scanned", "s1", 1),
                     AuditLog(CurrentUser, "qr_scanned", "s2", 2),
                     AuditLog(CurrentUser, "certificates_pushed", NoStudent, 0)>>,
     nextId |-> [att |-> 3, cert |-> 3, role |-> 1]]

Seeds == {EmptyStore, RegisteredStore, CertifiedStore}

Init ==
    \E seed \in Seeds :
        /\ eventExists = TRUE
        /\ totalDays = 1
        /\ tickets = seed.tickets
        /\ attendance = seed.attendance
        /\ certificates = seed.certificates
        /\ roles = {}
        /\ auditLogs = seed.auditLogs
        /\ nextId = seed.nextId
        /\ now = StartTime
        /\ response = NoResponse
        /\ caps = [audit |-> Len(seed.auditLogs) + MaxAudit,
                   att |-> seed.nextId.att - 1 + MaxAtt]
        /\ sessions = NoSessions

\* the caller takes the response
deliver ==
    /\ response # NoResponse
    /\ response' = NoResponse
    /\ UNCHANGED <<store, caps, sessions>>

Next ==
    \/ \E prn \in Callers : get_canonical_status(prn)
    \/ \E id \in 1..nextId.cert, reason \in Reasons :
          revoke_certificate(id, reason)
    \/ \E id \in 1..nextId.att, reason \in Reasons :
          invalidate_attendance(id, reason)
    \/ \E prn \in Callers, role \in RoleInputs : assign_role(prn, role)
    \/ \E id \in 1..nextId.role : remove_role(id)
    \/ \E prn \in Callers : register_for_event(prn)
    \/ \E prn \in Callers, day \in 1..totalDays : scan_qr(prn, day)
    \/ \E prn \in Callers : override_attendance(prn)
    \/ push_certificates
    \/ \E prn \in Callers : delete_ticket(prn)
    \/ delete_event
    \/ \E actions \in Batches(Callers, MaxBatch), commitOk \in BOOLEAN :
          bulk_resolve_conflicts(actions, commitOk)
    \/ deliver

Spec == Init /\ [][Next]_vars

(***************************************************************************)
(* BatchSpec: bulk-resolve requests only, of up to BatchLen actions.       *)
(***************************************************************************)
NextBatch ==
    \/ \E actions \in Batches(Callers, BatchLen), commitOk \in BOOLEAN :
          bulk_resolve_conflicts(actions, commitOk)
    \/ deliver

BatchSpec == Init /\ [][NextBatch]_vars

(***************************************************************************)
(* CorrectionSpec: the requests that correct records (single revocation,   *)
(* single invalidation, bulk-resolve), one after the other.                *)
(***************************************************************************)
NextCorrection ==
    \/ \E id \in 1..nextId.cert, reason \in Reasons :
          revoke_certificate(id, reason)
    \/ \E id \in 1..nextId.att, reason \in Reasons :
          invalidate_attendance(id, reason)
    \/ \E actions \in Batches(Callers, MaxBatch), commitOk \in BOOLEAN :
          bulk_resolve_conflicts(actions, commitOk)
    \/ deliver

CorrectionSpec == Init /\ [][NextCorrection]_vars

(***************************************************************************)
(* StatusSpec: the resolvers applied to the stores of a bounded family.    *)
(* Student s1 holds any combination of a ticket, attendance rows and       *)
(* certificates; s2 is registered, scanned and certified.  Several         *)
(* certificates of one student come from push requests served together:    *)
(* the handler is a plain def (run in the thread pool), each request       *)
(* computes the students without a certificate in its own session, and     *)
(* the certificates table carries no unique constraint.  Attendance rows   *)
(* of a student without a ticket come from a scan served together with     *)
(* the deletion of the ticket: scan_qr reads the ticket, delete_ticket      *)
(* commits, scan_qr inserts its row (attendance.ticket_id is no foreign    *)
(* key).  auditLogs holds the rows that account for the records present;   *)
(* no resolver reads it.                                                   *)
(***************************************************************************)
\* the columns each workflow gives the Attendance row it inserts: scan_qr
\* on a day of the event, override_attendance, the add_attendance branch
\* of bulk_resolve_conflicts
AttendanceKinds(days) ==
    {[day_number |-> d, scan_source |-> "qr_scan", scanner_id |-> CurrentUser]
        : d \in 1..days}
    \cup {[day_number |-> NoDay, scan_source |-> "qr_scan",
           scanner_id |-> NoUser],
          [day_number |-> 1, scan_source |-> "admin_override",
           scanner_id |-> CurrentUser]}

\* the Attendance row of primary key id, of the given kind; invalidated
\* rows went through invalidate_attendance
AttendanceRow(id, prn, kind, invalidated) ==
    IF invalidated
    THEN [Attendance(id, prn, kind.day_number, kind.scan_source,
                     kind.scanner_id)
            EXCEPT !.invalidated = TRUE, !.invalidated_at = PastTime,
                   !.invalidated_by = CurrentUser,
                   !.invalidation_reason = "r1"]
    ELSE Attendance(id, prn, kind.day_number, kind.scan_source,
                    kind.scanner_id)

\* the Certificate row of primary key id; revoked rows went through
\* revoke_certificate
CertificateRow(id, prn, revoked) ==
    IF revoked THEN Revoked(Certificate(id, prn, "attendee"), PastTime, "r1")
    ELSE Certificate(id, prn, "attendee")

RECURSIVE Concat(_, _)
\* entries[1] \o ... \o entries[n]
Concat(entries, n) ==
    IF n = 0 THEN <<>> ELSE Concat(entries, n - 1) \o entries[n]

\* the audit rows the workflows wrote while they built the rows
StatusAudit(atts, certs) ==
    LET attRow(i) == RowById(atts, i)
        certRow(i) == RowById(certs, i)
        nAtt == Cardinality(atts)
        nCert == Cardinality(certs)
    IN Concat([i \in 1..nAtt |->
                 IF attRow(i).scan_source = "admin_override"
                 THEN <<AuditLog(CurrentUser, "bulk_attendance_added",
                                 attRow(i).student_prn, 0)>>
                 ELSE IF attRow(i).day_number = NoDay THEN <<>>
                 ELSE <<AuditLog(CurrentUser, "qr_scanned",
                                 attRow(i).student_prn, i)>>], nAtt)
       \o Concat([i \in 1..nCert |->
                 <<AuditLog(CurrentUser, "certificates_pushed", NoStudent,
                            0)>>], nCert)
       \o Concat([i \in 1..nCert |->
                 IF certRow(i).revoked THEN <<RevocationAudit(certRow(i))>>
                 ELSE <<>>], nCert)
       \o Concat([i \in 1..nAtt |->
                 IF attRow(i).invalidated
                 THEN <<AuditLog(CurrentUser, "attendance_invalidated",
                                 attRow(i).student_prn, i)>>
                 ELSE <<>>], nAtt)

StatusInit ==
    \E days \in 1..MaxDays, registered \in BOOLEAN,
       nAtt \in 0..MaxAtt, nCert \in 0..MaxCerts :
    \E kinds \in [1..nAtt -> AttendanceKinds(days)],
       invalid \in [1..nAtt -> BOOLEAN],
       revoked \in [1..nCert -> BOOLEAN] :
        LET atts == {AttendanceRow(i, "s1", kinds[i], invalid[i])
                        : i \in 1..nAtt}
                    \cup {Attendance(nAtt + 1, "s2", 1, "qr_scan",
                                     CurrentUser)}
            certs == {CertificateRow(i, "s1", revoked[i]) : i \in 1..nCert}
                     \cup {Certificate(nCert + 1, "s2", "attendee")}
        IN /\ eventExists = TRUE
           /\ totalDays = days
           /\ tickets = IF registered THEN {"s1", "s2"} ELSE {"s2"}
           /\ attendance = atts
           /\ certificates = certs
           /\ roles = {}
           /\ auditLogs = StatusAudit(atts, certs)
           /\ nextId = [att |-> nAtt + 2, cert |-> nCert + 2, role |-> 1]
           /\ now = StartTime
           /\ response = NoResponse
           /\ caps = [audit |-> Len(StatusAudit(atts, certs)),
                      att |-> nAtt + 1]
           /\ sessions = NoSessions

StatusNext ==
    \/ \E prn \in Students : get_canonical_status(prn)
    \/ deliver

StatusSpec == StatusInit /\ [][StatusNext]_vars

(***************************************************************************)
(* TrustSpec: the resolver applied to students with up to MaxScans scans.  *)
(* s1 was scanned on each of the first nQr days of the event; before the   *)
(* first scan an operator may have recorded s1 present, by a bulk-resolve  *)
(* add_attendance action (a row of day 1: the scans then start on day 2)   *)
(* or by override_attendance (a row without day_number).  s1 holds a       *)
(* ticket or has lost it (see StatusSpec), and holds no certificate, an    *)
(* active one or a revoked one.                                            *)
(***************************************************************************)
\* how s1 was first recorded present, if at all before the scans
FirstRecords == {"none", "bulk", "override"}

TrustAttendance(first, nQr) ==
    IF first = "bulk"
    THEN {Attendance(1, "s1", 1, "admin_override", CurrentUser)}
         \cup {Attendance(i + 1, "s1", i + 1, "qr_scan", CurrentUser)
                  : i \in 1..nQr}
    ELSE IF first = "override"
    THEN {Attendance(1, "s1", NoDay, "qr_scan", NoUser)}
         \cup {Attendance(i + 1, "s1", i, "qr_scan", CurrentUser)
                  : i \in 1..nQr}
    ELSE {Attendance(i, "s1", i, "qr_scan", CurrentUser) : i \in 1..nQr}

TrustInit ==
    \E registered \in BOOLEAN, first \in FirstRecords, nQr \in 0..MaxScans,
       nCert \in 0..1, revoked \in BOOLEAN :
        LET atts == TrustAttendance(first, nQr)
            certs == {CertificateRow(i, "s1", revoked) : i \in 1..nCert}
        IN /\ eventExists = TRUE
           /\ totalDays = MaxScans + 1
           /\ tickets = IF registered THEN {"s1"} ELSE {}
           /\ attendance = atts
           /\ certificates = certs
           /\ roles = {}
           /\ auditLogs = StatusAudit(atts, certs)
           /\ nextId = [att |-> Cardinality(atts) + 1, cert |-> nCert + 1,
                        role |-> 1]
           /\ now = StartTime
           /\ response = NoResponse
           /\ caps = [audit |-> Len(StatusAudit(atts, certs)),
                      att |-> Cardinality(atts)]
           /\ sessions = NoSessions

TrustNext ==
    \/ get_canonical_status("s1")
    \/ deliver

TrustSpec == TrustInit /\ [][TrustNext]_vars

(***************************************************************************)
(* RaceSpec: two revocation requests served together on CertifiedStore.    *)
(* Each request has its own session (get_db) and its own transaction; the  *)
(* handlers take no row lock and the UPDATE of the flush carries no        *)
(* condition on the revoked column.  A request is a single revocation      *)
(* (revoke_certificate) or a bulk-resolve request of one                   *)
(* revoke_certificate action.  Its two store accesses are separate steps:  *)
(* the query with the check of the revoked flag, then the commit.  The two *)
(* handlers are coroutines without an await, so one event loop runs each   *)
(* to its end: the requests that interleave are served by two server       *)
(* processes on the one database.                                          *)
(***************************************************************************)
RaceRequests ==
    [kind : {"revoke"}, certificate_id : Ids(CertifiedStore.certificates),
     student_prn : {NoStudent}]
    \cup [kind : {"bulk"}, certificate_id : {0}, student_prn : Students]

\* the session of a request that has not yet run
NewSession(request) ==
    [request |-> request, pc |-> "start", certificate_id |-> 0,
     status |-> 0, successful |-> 0]

RaceInit ==
    \E requests \in [1..2 -> RaceRequests] :
        /\ eventExists = TRUE
        /\ totalDays = 1
        /\ tickets = CertifiedStore.tickets
        /\ attendance = CertifiedStore.attendance
        /\ certificates = CertifiedStore.certificates
        /\ roles = {}
        /\ auditLogs = CertifiedStore.auditLogs
        /\ nextId = CertifiedStore.nextId
        /\ now = StartTime
        /\ response = NoResponse
        /\ caps = [audit |-> Len(CertifiedStore.auditLogs) + 2,
                   att |-> CertifiedStore.nextId.att - 1]
        /\ sessions = [i \in 1..2 |-> NewSession(requests[i])]

\* the query of the request and its check of the revoked flag
RaceRead(i) ==
    LET s == sessions[i] IN
    /\ s.pc = "start"
    /\ IF s.request.kind = "revoke"
       THEN LET certificate == RowById(certificates, s.request.certificate_id)
            IN sessions' = [sessions EXCEPT ![i] =
                   IF AlreadyRevoked(certificate)
                   THEN [s EXCEPT !.pc = "done", !.status = 400]
                   ELSE [s EXCEPT !.pc = "checked",
                                  !.certificate_id = certificate.id]]
       ELSE IF ActiveCertificatesOf(s.request.student_prn) = {}
       THEN sessions' = [sessions EXCEPT ![i] =
                [s EXCEPT !.pc = "done", !.status = 200]]
       ELSE \E c \in ActiveCertificatesOf(s.request.student_prn) :
                sessions' = [sessions EXCEPT ![i] =
                    [s EXCEPT !.pc = "checked", !.certificate_id = c.id]]
    /\ UNCHANGED <<store, response, caps>>

\* db.commit(): the flush updates the four revoked columns of the row and
\* inserts the audit row, then the transaction commits
RaceCommit(i) ==
    LET s == sessions[i]
        certificate == RowById(certificates, s.certificate_id)
    IN /\ s.pc = "checked"
       /\ certificates' = Updated(certificates,
              Revoked(certificate, now,
                      IF s.request.kind = "revoke" THEN "r1"
                      ELSE DefaultBulkReason))
       /\ auditLogs' = Append(auditLogs,
              IF s.request.kind = "revoke" THEN RevocationAudit(certificate)
              ELSE BulkRevocationAudit(certificate.student_prn))
       /\ now' = now + 1
       /\ sessions' = [sessions EXCEPT ![i] =
              [s EXCEPT !.pc = "done", !.status = 200, !.successful = 1]]
       /\ UNCHANGED <<eventExists, totalDays, tickets, attendance, roles,
                      nextId, response, caps>>

RaceNext == \E i \in 1..2 : RaceRead(i) \/ RaceCommit(i)

RaceSpec == RaceInit /\ [][RaceNext]_vars

(***************************************************************************)
(* Fraud detection (services/fraud_detection_service.py) and the public    *)
(* verification of a certificate.  The rules read two columns the          *)
(* resolvers do not: Certificate.issued_at and Attendance.scanned_at.  The *)
(* stores of FraudSpec and UploadSpec carry them, in seconds.              *)
(***************************************************************************)
\* Event.start_time
EventStartTime == StartTime + 1

\* the Certificate row with its issued_at column
Issued(certificate, at) == certificate @@ [issued_at |-> at]

\* the Attendance row with its scanned_at column
Scanned(att, at) == att @@ [scanned_at |-> at]

\* an entry of fraud_alerts: type, severity, student_prn and the evidence
\* that tells two alerts of a rule apart
FraudAlert(type, severity, prn, certificate_ids, minute, scanner_id) ==
    [type |-> type, severity |-> severity, student_prn |-> prn,
     certificate_ids |-> certificate_ids, minute |-> minute,
     scanner_id |-> scanner_id]

\* Rule 1: _detect_duplicate_certificates.  The grouped query filters on
\* event_id and on student_prn IS NOT NULL only.
detect_duplicate_certificates ==
    LET holders == {c.student_prn : c \in certificates} \ {NoStudent}
        duplicates == {prn \in holders : Cardinality(CertificatesOf(prn)) > 1}
    IN {FraudAlert("DUPLICATE_CERTIFICATE", "HIGH", prn,
                   Ids(CertificatesOf(prn)), NoTime, NoUser)
           : prn \in duplicates}

\* Rule 2: _detect_orphan_certificates
detect_orphan_certificates ==
    LET checked == {c \in certificates :
                       ~c.revoked /\ c.student_prn # NoStudent}
        orphans == {c \in checked : ActiveAttendance(c.student_prn) = {}}
    IN {FraudAlert("CERTIFICATE_WITHOUT_PARTICIPATION",
                   IF ~HasTicket(c.student_prn) THEN "HIGH" ELSE "MEDIUM",
                   c.student_prn, {c.id}, NoTime, NoUser)
           : c \in orphans}

SecondsPerMinute == 60

\* `scanned_at.replace(second=0, microsecond=0)`
MinuteOf(at) == at - (at % SecondsPerMinute)

\* the thresholds of rules 3, 6 and 7
RapidScanLimit == 10
OverrideLimit == 20
BulkUploadLimit == 100

\* Rule 3: _detect_rapid_scans (`unique_students < len(scans) * 0.8`)
detect_rapid_scans ==
    LET records == {a \in attendance :
                       ~a.invalidated /\ a.scanned_at # NoTime}
        scans(minute) == {a \in records : MinuteOf(a.scanned_at) = minute}
        unique(minute) == Cardinality({a.student_prn : a \in scans(minute)})
        rapid == {minute \in {MinuteOf(a.scanned_at) : a \in records} :
                     /\ Cardinality(scans(minute)) > RapidScanLimit
                     /\ 10 * unique(minute) < 8 * Cardinality(scans(minute))}
    IN {FraudAlert("MULTIPLE_SCANS_SAME_MINUTE", "MEDIUM", "MULTIPLE", {},
                   minute, NoUser)
           : minute \in rapid}

\* Rule 4: _detect_premature_certificates.  The query filters on event_id,
\* issued_at and revoked only.
detect_premature_certificates ==
    IF ~eventExists THEN {}
    ELSE {FraudAlert("CERTIFICATE_BEFORE_EVENT", "HIGH", c.student_prn,
                     {c.id}, NoTime, NoUser)
             : c \in {c \in certificates :
                         c.issued_at < EventStartTime /\ ~c.revoked}}

\* Rule 5: _detect_revoked_usage.  details.certificate_id of an audit row
\* is its ref.
detect_revoked_usage ==
    LET verified(c) ==
            {i \in DOMAIN auditLogs :
                /\ auditLogs[i].action_type = "certificate_verified"
                /\ auditLogs[i].timestamp > c.revoked_at
                /\ auditLogs[i].ref = c.id}
    IN {FraudAlert("REVOKED_STILL_IN_USE", "HIGH", c.student_prn, {c.id},
                   NoTime, NoUser)
           : c \in {c \in certificates : c.revoked /\ verified(c) # {}}}

\* Rule 6: _detect_override_abuse
detect_override_abuse ==
    LET overrides == {a \in attendance : a.scan_source = "admin_override"}
        count(scanner) ==
            Cardinality({a \in overrides : a.scanner_id = scanner})
    IN {FraudAlert("MANUAL_OVERRIDE_ABUSE", "MEDIUM", "N/A", {}, NoTime,
                   scanner)
           : scanner \in {s \in {a.scanner_id : a \in overrides} :
                             count(s) > OverrideLimit}}

\* a variant of the test of rule 7: the limit itself raises the alert
ReachesBulkLimit(count) == count >= BulkUploadLimit

\* `if len(uploads) > 100`
ExceedsBulkLimit(count) == count > BulkUploadLimit

\* the bulk_upload rows of the event scanned in the minute
BulkUploads(minute) ==
    {a \in attendance : /\ a.scan_source = "bulk_upload"
                        /\ a.scanned_at # NoTime
                        /\ MinuteOf(a.scanned_at) = minute}

\* Rule 7: _detect_bulk_anomalies
detect_bulk_anomalies ==
    LET minutes == {MinuteOf(a.scanned_at) :
                       a \in {b \in attendance :
                                 /\ b.scan_source = "bulk_upload"
                                 /\ b.scanned_at # NoTime}}
    IN {FraudAlert("BULK_UPLOAD_ANOMALY", "LOW", "N/A", {}, minute, NoUser)
           : minute \in {m \in minutes :
                            ExceedsBulkLimit(Cardinality(BulkUploads(m)))}}

\* the report FraudDetectionService.detect_fraud returns.  The alerts of a
\* report differ pairwise (by student, certificate, minute or scanner), so
\* the list is the set of its entries.
fraud_report ==
    LET alerts == detect_duplicate_certificates
                  \cup detect_orphan_certificates
                  \cup detect_rapid_scans
                  \cup detect_premature_certificates
                  \cup detect_revoked_usage
                  \cup detect_override_abuse
                  \cup detect_bulk_anomalies
        count(severity) ==
            Cardinality({a \in alerts : a.severity = severity})
    IN [op |-> "fraud",
        fraud_alerts |-> alerts,
        summary |-> [total_alerts |-> Cardinality(alerts),
                     high_severity |-> count("HIGH"),
                     medium_severity |-> count("MEDIUM"),
                     low_severity |-> count("LOW")]]

\* GET /ps1/fraud/detect/{event_id}
detect_fraud ==
    /\ response = NoResponse
    /\ response' = fraud_report
    /\ UNCHANGED <<store, caps, sessions>>

\* GET /ps1/verify/certificate/{certificate_id}; hash_valid is the outcome
\* of the comparison with the verification_hash of the request
verify_certificate(certificate_id, hash_valid) ==
    /\ response = NoResponse
    /\ response' =
          IF certificate_id \notin Ids(certificates)
          THEN [op |-> "verify", certificate_id |-> certificate_id,
                authentic |-> FALSE, revoked |-> FALSE]
          ELSE IF RowById(certificates, certificate_id).revoked
          THEN [op |-> "verify", certificate_id |-> certificate_id,
                authentic |-> FALSE, revoked |-> TRUE]
          ELSE [op |-> "verify", certificate_id |-> certificate_id,
                authentic |-> hash_valid, revoked |-> FALSE]
    /\ UNCHANGED <<store, caps, sessions>>

\* `all_prns` of get_event_conflicts: the student_prn of the tickets, of
\* the attendance rows that are not invalidated and of the certificates
\* (the certificate query has no filter on student_prn)
all_prns ==
    tickets \cup {a.student_prn : a \in {b \in attendance : ~b.invalidated}}
            \cup {c.student_prn : c \in certificates}

\* the entry get_event_conflicts appends for a result of
\* get_canonical_status
ConflictEntry(status_data) ==
    [student_prn |-> status_data.student_prn,
     canonical_status |-> status_data.canonical_status,
     conflicts |-> status_data.conflicts,
     trust_score |-> status_data.trust_score]

\* the lists ReconciliationService.get_event_conflicts can return: for
\* each prn one of the results get_canonical_status can give, kept when
\* its conflicts are not empty.  The entries differ by student_prn, so
\* the list is the set of its entries.
event_conflicts ==
    LET results == UNION {StatusResults(prn) : prn \in all_prns}
        picks == {f \in [all_prns -> results] :
                     \A prn \in all_prns : f[prn] \in StatusResults(prn)}
    IN {{ConflictEntry(f[prn]) :
            prn \in {q \in all_prns : f[q].conflicts # <<>>}}
           : f \in picks}

\* response_model=List[ConflictResponse]: student_prn is a str, so an
\* entry whose student_prn is None fails the validation of the response
\* and the request ends with status 500
ConflictResponse(entries) ==
    IF \E e \in entries : e.student_prn = NoStudent
    THEN [op |-> "conflicts", status |-> 500]
    ELSE [op |-> "conflicts", status |-> 200, conflicts |-> entries]

\* GET /ps1/participation/conflicts/{event_id}
get_event_conflicts ==
    /\ response = NoResponse
    /\ response' \in {ConflictResponse(entries) : entries \in event_conflicts}
    /\ UNCHANGED <<store, caps, sessions>>

(***************************************************************************)
(* FraudSpec: the event-wide reads (fraud detection, event conflicts),      *)
(* the verification and the revocation of a certificate, on the stores     *)
(* of a bounded family, after the event has started.  s1 holds any         *)
(* combination of a ticket, a scan and certificates (several certificates  *)
(* of one student: see StatusSpec); s2 is registered, scanned and          *)
(* certified.  The event has up to MaxRoleCerts role-based certificates    *)
(* (student_prn NULL): issue_organizer_certificates and                    *)
(* issue_volunteer_certificates check no date, so push-by-roles issues     *)
(* them before the event starts as well as after.                          *)
(***************************************************************************)
\* the role-based certificate of primary key id: the organizer's, then
\* the volunteers'
RoleCertificate(id, n, early) ==
    Issued(Certificate(id, NoStudent, IF n = 1 THEN "organizer"
                                      ELSE "volunteer"),
           IF early THEN PastTime ELSE EventStartTime)

\* the attendee certificate of primary key id, issued once the event had
\* started; revoked rows went through revoke_certificate
IssuedCertificateRow(id, prn, revoked) ==
    IF revoked
    THEN Revoked(Issued(Certificate(id, prn, "attendee"), EventStartTime),
                 EventStartTime, "r1")
    ELSE Issued(Certificate(id, prn, "attendee"), EventStartTime)

FraudInit ==
    \E registered \in BOOLEAN, nAtt \in 0..1, nCert \in 0..MaxCerts,
       nRole \in 0..MaxRoleCerts :
    \E revoked \in [1..nCert -> BOOLEAN], early \in [1..nRole -> BOOLEAN] :
        LET atts == {Scanned(Attendance(i, "s1", 1, "qr_scan", CurrentUser),
                             EventStartTime) : i \in 1..nAtt}
                    \cup {Scanned(Attendance(nAtt + 1, "s2", 1, "qr_scan",
                                             CurrentUser), EventStartTime)}
            certs == {IssuedCertificateRow(i, "s1", revoked[i])
                         : i \in 1..nCert}
                     \cup {IssuedCertificateRow(nCert + 1, "s2", FALSE)}
            roleCerts == {RoleCertificate(nCert + 1 + i, i, early[i])
                             : i \in 1..nRole}
            logs == StatusAudit(atts, certs)
                    \o [i \in 1..nRole |->
                           AuditLog(CurrentUser, "role_certificates_pushed",
                                    NoStudent, 0)]
        IN /\ eventExists = TRUE
           /\ totalDays = 1
           /\ tickets = IF registered THEN {"s1", "s2"} ELSE {"s2"}
           /\ attendance = atts
           /\ certificates = certs \cup roleCerts
           /\ roles = {}
           /\ auditLogs = logs
           /\ nextId = [att |-> nAtt + 2, cert |-> nCert + nRole + 2,
                        role |-> 1]
           /\ now = EventStartTime + 1
           /\ response = NoResponse
           /\ caps = [audit |-> Len(logs) + MaxAudit, att |-> nAtt + 1]
           /\ sessions = NoSessions

FraudNext ==
    \/ detect_fraud
    \/ get_event_conflicts
    \/ \E id \in 1..nextId.cert, hash_valid \in BOOLEAN :
          verify_certificate(id, hash_valid)
    \/ \E id \in 1..nextId.cert, reason \in Reasons :
          revoke_certificate(id, reason)
    \/ deliver

FraudSpec == FraudInit /\ [][FraudNext]_vars

(***************************************************************************)
(* UploadSpec: fraud detection on events whose attendance was imported.    *)
(* The rows have scan_source bulk_upload (ScanSource.BULK_UPLOAD): up to   *)
(* MaxUploads of them were stored within one minute, at different seconds, *)
(* and up to one in the minute after; the first row may have been          *)
(* invalidated since.  Both students are registered.                       *)
(***************************************************************************)
\* the imported row of primary key id, stored in the minute that starts at
\* `minute`; invalidated rows went through invalidate_attendance
UploadedRow(id, minute, invalidated) ==
    LET row == Scanned(Attendance(id, IF id % 2 = 1 THEN "s1" ELSE "s2", 1,
                                  "bulk_upload", CurrentUser),
                       minute + (id % SecondsPerMinute))
    IN IF invalidated
       THEN [row EXCEPT !.invalidated = TRUE,
                        !.invalidated_at = 3 * SecondsPerMinute - 1,
                        !.invalidated_by = CurrentUser,
                        !.invalidation_reason = "r1"]
       ELSE row

UploadInit ==
    \E nFirst \in 0..MaxUploads, nNext \in 0..1, invalidated \in BOOLEAN :
        LET atts == {UploadedRow(i, SecondsPerMinute, invalidated /\ i = 1)
                        : i \in 1..nFirst}
                    \cup {UploadedRow(nFirst + i, 2 * SecondsPerMinute, FALSE)
                             : i \in 1..nNext}
            logs == IF invalidated /\ nFirst > 0
                    THEN <<AuditLog(CurrentUser, "attendance_invalidated",
                                    "s1", 1)>>
                    ELSE <<>>
        IN /\ eventExists = TRUE
           /\ totalDays = 1
           /\ tickets = Students
           /\ attendance = atts
           /\ certificates = {}
           /\ roles = {}
           /\ auditLogs = logs
           /\ nextId = [att |-> nFirst + nNext + 1, cert |-> 1, role |-> 1]
           /\ now = 3 * SecondsPerMinute
           /\ response = NoResponse
           /\ caps = [audit |-> Len(logs), att |-> nFirst + nNext]
           /\ sessions = NoSessions

UploadNext ==
    \/ detect_fraud
    \/ deliver

UploadSpec == UploadInit /\ [][UploadNext]_vars

(***************************************************************************)
(* Change history (services/audit_service.py).  get_change_history reads   *)
(* AuditLog.timestamp, which the rows of HistorySpec carry.  Its sort keys *)
(* are isoformat strings of UTC times, which order as the times do; the    *)
(* key of a missing time is the empty string, the least of all.            *)
(***************************************************************************)
\* the AuditLog row with its timestamp column
Stamped(log, at) == log @@ [timestamp |-> at]

\* `limit: int = 50`
HistoryLimit == 50

\* an entry of `changes`
Change(timestamp, action, action_type, ref) ==
    [timestamp |-> timestamp, action |-> action,
     action_type |-> action_type, ref |-> ref]

RECURSIVE Listed(_)
\* the rows of a query result, one after the other (by primary key)
Listed(rows) ==
    IF rows = {} THEN <<>>
    ELSE LET first == CHOOSE r \in rows : \A q \in rows : r.id <= q.id
         IN <<first>> \o Listed(rows \ {first})

\* order_by(desc(AuditLog.timestamp)).limit(limit): the ledger is appended
\* in the order of its timestamps, so the query yields its last `limit`
\* rows, the latest first
LatestLogs(limit) ==
    LET n == Min(limit, Len(auditLogs))
    IN [k \in 1..n |-> auditLogs[Len(auditLogs) + 1 - k]]

RECURSIVE SortedLatestFirst(_)
\* changes.sort(key=timestamp, reverse=True): a stable sort, entries of one
\* timestamp keep their order
SortedLatestFirst(changes) ==
    IF changes = <<>> THEN <<>>
    ELSE LET latest == CHOOSE i \in DOMAIN changes :
                 /\ \A j \in DOMAIN changes :
                        changes[j].timestamp <= changes[i].timestamp
                 /\ \A j \in 1..(i - 1) :
                        changes[j].timestamp < changes[i].timestamp
         IN <<changes[latest]>>
            \o SortedLatestFirst(SubSeq(changes, 1, latest - 1)
                                 \o SubSeq(changes, latest + 1, Len(changes)))

\* AuditService.get_change_history(event_id, student_prn, limit)
change_history(prn, limit) ==
    LET revocations ==
            Listed({c \in certificates : c.student_prn = prn /\ c.revoked})
        invalidations ==
            Listed({a \in attendance : a.student_prn = prn /\ a.invalidated})
        logs == SelectSeq(LatestLogs(limit), LAMBDA l : l.student_prn = prn)
        changes ==
            [k \in DOMAIN revocations |->
                Change(revocations[k].revoked_at, "certificate_revoked",
                       "revocation", revocations[k].id)]
            \o [k \in DOMAIN invalidations |->
                Change(invalidations[k].invalidated_at,
                       "attendance_invalidated", "invalidation",
                       invalidations[k].id)]
            \o [k \in DOMAIN logs |->
                Change(logs[k].timestamp, logs[k].action_type, "audit",
                       logs[k].ref)]
    IN [op |-> "history", student_prn |-> prn,
        changes |-> SortedLatestFirst(changes),
        summary |-> [total_changes |-> Len(changes),
                     revocations |-> Len(revocations),
                     invalidations |-> Len(invalidations),
                     audit_entries |-> Len(logs)]]

\* GET /ps1/audit/{event_id}/{student_prn}
get_change_history(prn, limit) ==
    /\ response = NoResponse
    /\ response' = IF eventExists THEN change_history(prn, limit)
                   ELSE [op |-> "history", student_prn |-> prn,
                         status |-> 404]
    /\ UNCHANGED <<store, caps, sessions>>

(***************************************************************************)
(* HistorySpec: the change history of the students of an event whose       *)
(* ledger has grown.  s1 and s2 registered and were scanned; the           *)
(* certificates were pushed; then, in any combination, the certificate of  *)
(* s1 was revoked and the attendance row of s1 invalidated (each with its  *)
(* audit row, at the time of the change); since then up to MaxLedger       *)
(* batch decisions (ignore) about s2 were recorded.  The clock ticks once  *)
(* per ledger row.                                                         *)
(***************************************************************************)
HistoryLedger(revoked, invalidated, nLater) ==
    LET head == <<AuditLog(CurrentUser, "qr_scanned", "s1", 1),
                  AuditLog(CurrentUser, "qr_scanned", "s2", 2),
                  AuditLog(CurrentUser, "certificates_pushed", NoStudent, 0)>>
                \o (IF revoked
                    THEN <<RevocationAudit(Certificate(1, "s1", "attendee"))>>
                    ELSE <<>>)
                \o (IF invalidated
                    THEN <<AuditLog(CurrentUser, "attendance_invalidated",
                                    "s1", 1)>>
                    ELSE <<>>)
        later == [i \in 1..nLater |->
                    AuditLog(CurrentUser, "bulk_ignore", "s2", 0)]
    IN [k \in 1..(Len(head) + nLater) |-> Stamped((head \o later)[k], k)]

\* the position in the ledger of the first row of the action, 0 if none
LedgerTime(ledger, action) ==
    IF \E k \in DOMAIN ledger : ledger[k].action_type = action
    THEN CHOOSE k \in DOMAIN ledger :
             /\ ledger[k].action_type = action
             /\ \A j \in 1..(k - 1) : ledger[j].action_type # action
    ELSE NoTime

HistoryInit ==
    \E revoked \in BOOLEAN, invalidated \in BOOLEAN, nLater \in 0..MaxLedger :
        LET ledger == HistoryLedger(revoked, invalidated, nLater)
            certificate == Certificate(1, "s1", "attendee")
            scan == Attendance(1, "s1", 1, "qr_scan", CurrentUser)
        IN /\ eventExists = TRUE
           /\ totalDays = 1
           /\ tickets = Students
           /\ attendance =
                  {IF invalidated
                   THEN [scan EXCEPT
                           !.invalidated = TRUE,
                           !.invalidated_at =
                               LedgerTime(ledger, "attendance_invalidated"),
                           !.invalidated_by = CurrentUser,
                           !.invalidation_reason = "r1"]
                   ELSE scan,
                   Attendance(2, "s2", 1, "qr_scan", CurrentUser)}
           /\ certificates =
                  {IF revoked
                   THEN Revoked(certificate,
                                LedgerTime(ledger, "certificate_revoked"),
                                "r1")
                   ELSE certificate,
                   Certificate(2, "s2", "attendee")}
           /\ roles = {}
           /\ auditLogs = ledger
           /\ nextId = [att |-> 3, cert |-> 3, role |-> 1]
           /\ now = Len(ledger) + 1
           /\ response = NoResponse
           /\ caps = [audit |-> Len(ledger), att |-> 2]
           /\ sessions = NoSessions

HistoryNext ==
    \/ \E prn \in Students : get_change_history(prn, HistoryLimit)
    \/ deliver

HistorySpec == HistoryInit /\ [][HistoryNext]_vars

(***************************************************************************)
(* ResolveSpec: bulk-resolve requests and the resolver on events where a   *)
(* student holds several certificates.  s1 is registered, was scanned or   *)
(* not, and holds up to MaxCerts certificates, each revoked or not (see    *)
(* StatusSpec for where several certificates come from); s2 is             *)
(* registered, scanned and certified.                                      *)
(***************************************************************************)
ResolveInit ==
    \E nAtt \in 0..1, nCert \in 0..MaxCerts :
    \E revoked \in [1..nCert -> BOOLEAN] :
        LET atts == {Attendance(i, "s1", 1, "qr_scan", CurrentUser)
                        : i \in 1..nAtt}
                    \cup {Attendance(nAtt + 1, "s2", 1, "qr_scan",
                                     CurrentUser)}
            certs == {CertificateRow(i, "s1", revoked[i]) : i \in 1..nCert}
                     \cup {Certificate(nCert + 1, "s2", "attendee")}
            logs == StatusAudit(atts, certs)
        IN /\ eventExists = TRUE
           /\ totalDays = 1
           /\ tickets = Students
           /\ attendance = atts
           /\ certificates = certs
           /\ roles = {}
           /\ auditLogs = logs
           /\ nextId = [att |-> nAtt + 2, cert |-> nCert + 2, role |-> 1]
           /\ now = StartTime
           /\ response = NoResponse
           /\ caps = [audit |-> Len(logs) + MaxAudit, att |-> nAtt + 1 + MaxAtt]
           /\ sessions = NoSessions

ResolveNext ==
    \/ \E actions \in Batches(Callers, MaxBatch), commitOk \in BOOLEAN :
          bulk_resolve_conflicts(actions, commitOk)
    \/ \E prn \in Callers : get_canonical_status(prn)
    \/ deliver

ResolveSpec == ResolveInit /\ [][ResolveNext]_vars

(***************************************************************************)
(* AddRaceSpec: two bulk-resolve requests of add_attendance actions served *)
(* together on RegisteredStore (s1 registered and not scanned, s2          *)
(* registered and scanned), by two server processes (see RaceSpec).  Each  *)
(* request has its own session: its loop reads the committed rows and      *)
(* adds its rows to the session (autoflush is off), its commit inserts     *)
(* them.  The attendance table has no unique constraint on the student.    *)
(***************************************************************************)
\* the batches of one to RaceBatchLen add_attendance actions
AddBatches ==
    UNION {[1..k -> [student_prn : Students, action : {"add_attendance"}]]
              : k \in 1..RaceBatchLen}

AddRaceInit ==
    \E requests \in [1..2 -> AddBatches] :
        /\ eventExists = TRUE
        /\ totalDays = 1
        /\ tickets = RegisteredStore.tickets
        /\ attendance = RegisteredStore.attendance
        /\ certificates = RegisteredStore.certificates
        /\ roles = {}
        /\ auditLogs = RegisteredStore.auditLogs
        /\ nextId = RegisteredStore.nextId
        /\ now = StartTime
        /\ response = NoResponse
        /\ caps = [audit |-> Len(RegisteredStore.auditLogs)
                                + 2 * RaceBatchLen,
                   att |-> RegisteredStore.nextId.att - 1 + 2 * RaceBatchLen]
        /\ sessions = [i \in 1..2 |->
                          [actions |-> requests[i], pc |-> "start",
                           results |-> NewResults(Len(requests[i]))]]

\* the loop over the actions of the request
AddRaceLoop(i) ==
    LET s == sessions[i] IN
    /\ s.pc = "start"
    /\ \E res \in BulkLoop(s.actions, {s.results}) :
           sessions' = [sessions EXCEPT ![i] =
                           [s EXCEPT !.pc = "looped", !.results = res]]
    /\ UNCHANGED <<store, response, caps>>

\* db.commit(): the flush inserts the pending rows, then the transaction
\* commits
AddRaceCommit(i) ==
    LET s == sessions[i] IN
    /\ s.pc = "looped"
    /\ attendance' = attendance \cup FlushedAttendance(s.results.added)
    /\ certificates' = FlushedCertificates(s.results.dirty)
    /\ auditLogs' = auditLogs \o s.results.audit
    /\ nextId' = [nextId EXCEPT !.att = @ + Len(s.results.added)]
    /\ sessions' = [sessions EXCEPT ![i] = [s EXCEPT !.pc = "done"]]
    /\ UNCHANGED <<eventExists, totalDays, tickets, roles, now, response,
                   caps>>

AddRaceNext == \E i \in 1..2 : AddRaceLoop(i) \/ AddRaceCommit(i)

AddRaceSpec == AddRaceInit /\ [][AddRaceNext]_vars

(***************************************************************************)
(* The claims.                                                             *)
(***************************************************************************)
\* the status the precedence order gives the student: INVALIDATED when no
\* active certificate exists and a revoked one does, else CERTIFIED when an
\* active certificate exists, else by attendance, then registration
ExpectedStatus(prn) ==
    LET active == {c \in CertificatesOf(prn) : ~c.revoked}
        revoked == {c \in CertificatesOf(prn) : c.revoked}
    IN IF active = {} /\ revoked # {} THEN INVALIDATED
       ELSE IF active # {} THEN CERTIFIED
       ELSE IF ActiveAttendance(prn) # {} THEN ATTENDED_NO_CERTIFICATE
       ELSE IF HasTicket(prn) THEN REGISTERED_ONLY
       ELSE UNKNOWN

\* C1: for every combination of registration, attendance rows and one or
\* several certificates, the status get_canonical_status returns is the first
\* match of the precedence order.
C1_StatusFollowsPrecedence ==
    response.op = "status" =>
        response.canonical_status = ExpectedStatus(response.student_prn)

\* C2: whatever request is served, a revoked certificate keeps its row as it
\* is (revoked flag, revoked_at, revoked_by, revocation_reason), and a
\* certificate that is not revoked has none of the three written yet: they
\* are written once, by the revocation.
C2_RevokedStaysRevoked ==
    [][/\ \A c \in certificates : c.revoked => c \in certificates'
       /\ \A c \in certificates : ~c.revoked =>
              /\ c.revoked_at = NoTime
              /\ c.revoked_by = NoUser
              /\ c.revocation_reason = NoReason]_vars

\* C2 happens: a certificate revoked during the run, and the request just
\* served was a bulk revoke_certificate action for its student
C2_RevokedThenBulkRevoke ==
    \E c \in certificates :
        /\ c.revoked /\ c.revoked_at >= StartTime
        /\ response.op = "bulk" /\ response.status = 200
        /\ response.actions = <<[student_prn |-> c.student_prn,
                                 action |-> "revoke_certificate"]>>

\* C3: whatever request is served, an invalidated attendance row keeps its
\* flag, invalidated_at, invalidated_by and invalidation_reason for as long
\* as the row exists (delete_ticket removes the rows of a ticket), and an
\* invalidate_attendance request for it is answered 400.
C3_InvalidatedStaysInvalidated ==
    [][/\ \A a \in attendance : a.invalidated =>
              (a \in attendance' \/ a.id \notin Ids(attendance'))
       /\ (/\ response'.op = "invalidate"
           /\ response'.attendance_id \in Ids(attendance)
           /\ RowById(attendance, response'.attendance_id).invalidated)
              => response'.status = 400]_vars

\* C3 happens: an invalidate_attendance request for an invalidated row was
\* just rejected
C3_SecondInvalidateRejected ==
    \E a \in attendance :
        /\ a.invalidated /\ a.invalidated_at >= StartTime
        /\ response.op = "invalidate" /\ response.status = 400
        /\ response.attendance_id = a.id

\* C4: a revoke_certificate request for an active certificate succeeds and
\* stamps revoked_at; the next one for the same certificate is answered 400
\* and leaves the row, revoked_at included, as the first one wrote it.
C4_SecondRevokeRejected ==
    [][(response'.op = "revoke"
            /\ response'.certificate_id \in Ids(certificates)) =>
        LET before == RowById(certificates, response'.certificate_id)
            after == RowById(certificates', response'.certificate_id)
        IN IF before.revoked
           THEN response'.status = 400 /\ after = before
           ELSE /\ response'.status = 200
                /\ after.revoked /\ after.revoked_at = now]_vars

\* C4 happens: the certificate was revoked by a revoke_certificate request
\* of the run, and a second request for it was just answered 400
C4_RevokedTwice ==
    \E c \in certificates :
        /\ c.revoked /\ c.revoked_at >= StartTime
        /\ \E i \in DOMAIN auditLogs : auditLogs[i] = RevocationAudit(c)
        /\ response.op = "revoke" /\ response.status = 400
        /\ response.certificate_id = c.id

\* the certificate a request of RaceSpec is after
RaceTarget(request) ==
    IF request.kind = "revoke" THEN request.certificate_id
    ELSE (CHOOSE c \in certificates : c.student_prn = request.student_prn).id

\* the audit rows of the revocations of the certificate
RevocationEntries(certificate) ==
    {i \in DOMAIN auditLogs :
        auditLogs[i] \in {RevocationAudit(certificate),
                          BulkRevocationAudit(certificate.student_prn)}}

\* C5: when two revocation requests for the same active certificate have
\* run together, exactly one of them has succeeded, and the audit log holds
\* exactly one revocation entry for the certificate.
C5_OneRevocationWins ==
    (/\ sessions # NoSessions
     /\ \A i \in 1..2 : sessions[i].pc = "done"
     /\ RaceTarget(sessions[1].request) = RaceTarget(sessions[2].request))
    => /\ Cardinality({i \in 1..2 : sessions[i].successful = 1}) = 1
       /\ Cardinality(RevocationEntries(
              RowById(certificates, RaceTarget(sessions[1].request)))) = 1

\* the requests that change one record
SingleChangeOps ==
    {"revoke", "invalidate", "assign_role", "remove_role", "override"}

\* C6: a request that changes a certificate, an attendance row or a role
\* (revoke, invalidate, attendance override, role assigned or removed)
\* appends exactly one audit row in the same commit.
C6_EveryChangeAudited ==
    [][(/\ response'.op \in SingleChangeOps
        /\ \/ certificates' # certificates
           \/ attendance' # attendance
           \/ roles' # roles)
       => /\ Len(auditLogs') = Len(auditLogs) + 1
          /\ SubSeq(auditLogs', 1, Len(auditLogs)) = auditLogs]_vars

\* C7: the audit log only grows: every request leaves the rows written
\* before it in place and unchanged.
C7_AuditLogAppendOnly ==
    [][/\ Len(auditLogs') >= Len(auditLogs)
       /\ SubSeq(auditLogs', 1, Len(auditLogs)) = auditLogs]_vars

\* an action of a batch that succeeds on the store as the request finds it
ValidItem(item) ==
    \/ item.action = "add_attendance" /\ item.student_prn \in tickets
    \/ item.action = "revoke_certificate"
           /\ ActiveCertificatesOf(item.student_prn) # {}
    \/ item.action \in {"ignore", "manual_review"}

\* the audit rows the request appended
AppendedAudit == SubSeq(auditLogs', Len(auditLogs) + 1, Len(auditLogs'))

\* the effect of a valid action is in the store after the request
AppliedItem(item) ==
    IF item.action = "add_attendance"
    THEN ActiveAttendance(item.student_prn)' # {}
    ELSE IF item.action = "revoke_certificate"
    THEN ActiveCertificatesOf(item.student_prn)' = {}
    ELSE \E i \in DOMAIN AppendedAudit :
            AppendedAudit[i] =
                AuditLog(CurrentUser,
                         IF item.action = "ignore" THEN "bulk_ignore"
                         ELSE "bulk_manual_review", item.student_prn, 0)

\* C8: a bulk-resolve request of three actions, the second a
\* revoke_certificate for a student without a certificate and the other two
\* valid, whose commit succeeds, returns successful = 2 and failed = 1, and
\* the effects of the first and the third action are in the store: the
\* attendance, the revocation, one decision row per ignore / manual_review.
C8_FailedActionDoesNotAbort ==
    [][\A first, third \in BulkItems(Students), prn \in Students :
       (/\ response'.op = "bulk" /\ response'.status = 200
        /\ response'.actions =
               <<first, [student_prn |-> prn,
                         action |-> "revoke_certificate"], third>>
        /\ CertificatesOf(prn) = {}
        /\ ValidItem(first)
        /\ ValidItem(third))
       => /\ response'.successful = 2
          /\ response'.failed = 1
          /\ AppliedItem(first)
          /\ AppliedItem(third)
          /\ Cardinality({i \in DOMAIN AppendedAudit :
                 AppendedAudit[i].action_type
                     \in {"bulk_ignore", "bulk_manual_review"}})
             = Cardinality({item \in {first, third} : item.action
                     \in {"ignore", "manual_review"}})
               + (IF first = third
                     /\ first.action \in {"ignore", "manual_review"}
                  THEN 1 ELSE 0)]_vars

\* C8 happens: add_attendance, a revoke_certificate for a student without a
\* certificate, ignore; the attendance row and the decision row are there
C8_BatchWithFailedRevoke ==
    /\ response.op = "bulk" /\ response.status = 200
    /\ Len(response.actions) = 3
    /\ response.actions[1].action = "add_attendance"
    /\ response.actions[2].action = "revoke_certificate"
    /\ response.actions[3].action = "ignore"
    /\ CertificatesOf(response.actions[2].student_prn) = {}
    /\ response.successful = 2 /\ response.failed = 1
    /\ \E a \in attendance : /\ a.id = nextId.att - 1
                             /\ a.scan_source = "admin_override"
                             /\ a.student_prn = response.actions[1].student_prn
    /\ auditLogs[Len(auditLogs)].action_type = "bulk_ignore"

\* C9: when the store fails while a bulk-resolve request commits a later
\* action, the effect of the first action, if it was valid, is persisted.
C9_EarlierActionsPersist ==
    [][\A first \in BulkItems(Students) :
       (/\ response'.op = "bulk" /\ response'.status = 500
        /\ Len(response'.actions) >= 2
        /\ response'.actions[1] = first
        /\ ValidItem(first))
       => AppliedItem(first)]_vars

\* C10: the summary of a bulk-resolve request counts every action
\* (total_actions, successful + failed) and its details hold one entry per
\* action, in order, with the reason of a failed one.
C10_CompleteSummary ==
    (response.op = "bulk" /\ response.status = 200) =>
        /\ response.total_actions = Len(response.actions)
        /\ response.successful + response.failed = response.total_actions
        /\ Len(response.details) = response.total_actions
        /\ \A i \in DOMAIN response.details :
              /\ response.details[i].student_prn
                    = response.actions[i].student_prn
              /\ response.details[i].status = "failed"
                    => "reason" \in DOMAIN response.details[i]

\* the attendance rows a request created for the student
CreatedAttendance(prn) ==
    {a \in attendance' : a.student_prn = prn /\ a.id \notin Ids(attendance)}

\* the positions of the audit rows bulk_attendance_added the request
\* appended for the student
AddedAttendanceAudit(prn) ==
    {i \in DOMAIN AppendedAudit :
        AppendedAudit[i] =
            AuditLog(CurrentUser, "bulk_attendance_added", prn, 0)}

\* C11: a bulk-resolve request with add_attendance actions for a student
\* creates no attendance row and no audit row when the student has no
\* ticket (the action is counted failed) or already has a non-invalidated
\* attendance row; otherwise it creates exactly one row, with scan_source
\* admin_override and day_number 1, and exactly one audit row: a second
\* add_attendance action of the batch finds the row of the first.
C11_AddAttendanceOnce ==
    [][\A prn \in Students :
       (/\ response'.op = "bulk" /\ response'.status = 200
        /\ \E i \in DOMAIN response'.actions :
              response'.actions[i] =
                  [student_prn |-> prn, action |-> "add_attendance"])
       => IF prn \notin tickets
          THEN /\ CreatedAttendance(prn) = {}
               /\ AddedAttendanceAudit(prn) = {}
               /\ response'.failed >= 1
          ELSE IF ActiveAttendance(prn) # {}
          THEN /\ CreatedAttendance(prn) = {}
               /\ AddedAttendanceAudit(prn) = {}
          ELSE /\ Cardinality(CreatedAttendance(prn)) = 1
               /\ \A a \in CreatedAttendance(prn) :
                      /\ a.scan_source = "admin_override"
                      /\ a.day_number = 1
                      /\ ~a.invalidated
               /\ Cardinality(AddedAttendanceAudit(prn)) = 1]_vars

\* C12: after a bulk-resolve request of the single action add_attendance
\* for a student who holds a ticket, has no non-invalidated attendance row
\* and no certificate, every result get_canonical_status can return for
\* the student on the store the request leaves has canonical_status
\* ATTENDED_NO_CERTIFICATE and days_attended 1.
C12_AddedAttendanceShowsInStatus ==
    [][\A prn \in Students :
       (/\ response'.op = "bulk" /\ response'.status = 200
        /\ response'.actions =
               <<[student_prn |-> prn, action |-> "add_attendance"]>>
        /\ prn \in tickets
        /\ ActiveAttendance(prn) = {}
        /\ CertificatesOf(prn) = {})
       => \A result \in StatusResults(prn)' :
             /\ result.canonical_status = ATTENDED_NO_CERTIFICATE
             /\ result.days_attended = 1]_vars

\* C12 happens: the single add_attendance action for s1 was just served,
\* its row is the only attendance row of s1, and the status of s1 reads
\* ATTENDED_NO_CERTIFICATE
C12_RegisteredAbsentThenAdded ==
    /\ response.op = "bulk" /\ response.status = 200
    /\ response.actions =
           <<[student_prn |-> "s1", action |-> "add_attendance"]>>
    /\ response.successful = 1
    /\ response.details # <<>>
    /\ {a.id : a \in {b \in attendance : b.student_prn = "s1"}}
           = {nextId.att - 1}
    /\ CertificatesOf("s1") = {}
    /\ \A result \in StatusResults("s1") :
           result.canonical_status = ATTENDED_NO_CERTIFICATE

\* the certificates the request wrote to
ChangedCertificates == {c \in certificates' : c \notin certificates}

DecisionAudit(item) ==
    AuditLog(CurrentUser, IF item.action = "ignore" THEN "bulk_ignore"
                          ELSE "bulk_manual_review", item.student_prn, 0)

\* C14: a bulk-resolve request appends one audit row per ignore or
\* manual_review action, recording the decision for the student of the
\* action; a request of such actions only counts them all successful,
\* appends nothing else, and leaves the tickets, the attendance rows, the
\* certificates and the roles unchanged.
C14_DecisionOnlyAudited ==
    [][(response'.op = "bulk" /\ response'.status = 200)
       => /\ \A item \in BulkItems(Students) :
                item.action \in {"ignore", "manual_review"}
                => Cardinality({i \in DOMAIN AppendedAudit :
                        AppendedAudit[i] = DecisionAudit(item)})
                   = Cardinality({i \in DOMAIN response'.actions :
                        response'.actions[i] = item})
          /\ (\A i \in DOMAIN response'.actions :
                response'.actions[i].action \in {"ignore", "manual_review"})
             => /\ response'.successful = Len(response'.actions)
                /\ response'.failed = 0
                /\ Len(auditLogs') = Len(auditLogs) + Len(response'.actions)
                /\ SubSeq(auditLogs', 1, Len(auditLogs)) = auditLogs
                /\ UNCHANGED <<tickets, attendance, certificates,
                               roles>>]_vars

\* C14 happens: ignore then manual_review for s1 were just served on a
\* store that holds records, and their two rows end the audit log
C14_IgnoreThenManualReview ==
    /\ response.op = "bulk" /\ response.status = 200
    /\ response.actions = <<[student_prn |-> "s1", action |-> "ignore"],
                            [student_prn |-> "s1",
                             action |-> "manual_review"]>>
    /\ response.successful = 2
    /\ certificates # {}
    /\ Len(auditLogs) >= 2
    /\ auditLogs[Len(auditLogs) - 1] = DecisionAudit(response.actions[1])
    /\ auditLogs[Len(auditLogs)] = DecisionAudit(response.actions[2])

\* C15: in every result of get_canonical_status, has_attendance is true
\* exactly when the student has a non-invalidated attendance row, and
\* has_certificate exactly when the student has a certificate that is not
\* revoked, a revoked certificate next to it or not.
C15_HasFlagsCountActiveRecords ==
    response.op = "status" =>
        /\ response.has_attendance
              <=> ActiveAttendance(response.student_prn) # {}
        /\ response.has_certificate
              <=> ActiveCertificatesOf(response.student_prn) # {}

\* C16: no request deletes an attendance row or a certificate: every row
\* of the store is still there after the request, and only its
\* invalidated* / revoked* columns may differ.
C16_RecordsNeverDeleted ==
    [][/\ \A a \in attendance : \E b \in attendance' :
              /\ b.id = a.id
              /\ b.student_prn = a.student_prn
              /\ b.day_number = a.day_number
              /\ b.scan_source = a.scan_source
              /\ b.scanner_id = a.scanner_id
       /\ \A c \in certificates : \E d \in certificates' :
              /\ d.id = c.id
              /\ d.student_prn = c.student_prn
              /\ d.role_type = c.role_type]_vars

\* C17: for a student with a certificate that is not revoked and no
\* attendance row, get_canonical_status returns CERTIFIED, the conflict
\* list holding CERTIFICATE_WITHOUT_ATTENDANCE (HIGH) and nothing else, and
\* a trust score of at most 80.
C17_CertifiedWithoutAttendance ==
    (/\ response.op = "status"
     /\ ActiveCertificatesOf(response.student_prn) # {}
     /\ \A a \in attendance : a.student_prn # response.student_prn)
    => /\ response.canonical_status = CERTIFIED
       /\ response.conflicts = <<CERTIFICATE_WITHOUT_ATTENDANCE>>
       /\ response.trust_score <= 80

\* the days the non-invalidated attendance rows of the student cover, a
\* row without day_number standing for day 1
DaysCovered(prn) == {DayOrFirst(a) : a \in ActiveAttendance(prn)}

\* C18: for a student with no certificate and non-invalidated attendance
\* rows that cover fewer days than the event has, get_canonical_status
\* returns ATTENDED_NO_CERTIFICATE, days_attended equal to the number of
\* distinct days of those rows, and no conflict of severity HIGH.
C18_PartialAttendance ==
    (/\ response.op = "status"
     /\ CertificatesOf(response.student_prn) = {}
     /\ ActiveAttendance(response.student_prn) # {}
     /\ Cardinality(DaysCovered(response.student_prn))
            < response.total_days_required)
    => /\ response.canonical_status = ATTENDED_NO_CERTIFICATE
       /\ response.days_attended
              = Cardinality(DaysCovered(response.student_prn))
       /\ \A i \in DOMAIN response.conflicts :
              response.conflicts[i].severity # "HIGH"

\* the conflicts of the list that have the severity
CountSeverity(conflicts, severity) ==
    Cardinality({i \in DOMAIN conflicts : conflicts[i].severity = severity})

\* the trust score of the formula: 100, less 10 without registration, less
\* 30 without non-invalidated attendance, less 20 / 10 / 5 per HIGH /
\* MEDIUM / LOW conflict, plus 5 per non-invalidated qr_scan row up to 20,
\* brought into 0..100
FormulaTrust(result) ==
    LET scans == Cardinality({a \in ActiveAttendance(result.student_prn) :
                                 a.scan_source = "qr_scan"})
        bonus == IF 5 * scans > 20 THEN 20 ELSE 5 * scans
        raw == 100 - (IF result.has_registration THEN 0 ELSE 10)
                   - (IF result.has_attendance THEN 0 ELSE 30)
                   - 20 * CountSeverity(result.conflicts, "HIGH")
                   - 10 * CountSeverity(result.conflicts, "MEDIUM")
                   - 5 * CountSeverity(result.conflicts, "LOW")
                   + bonus
    IN IF raw < 0 THEN 0 ELSE IF raw > 100 THEN 100 ELSE raw

\* C19: the trust score get_canonical_status returns is the value of the
\* formula for the registration, the attendance and the conflicts of the
\* result; it lies in 0..100.
C19_TrustScoreFormula ==
    response.op = "status" =>
        /\ response.trust_score = FormulaTrust(response)
        /\ response.trust_score \in 0..100

\* C19 happens: more than four qr_scan rows (the bonus is capped) and
\* conflicts that keep the score under 100
C19_CappedBonus ==
    /\ response.op = "status"
    /\ Cardinality({a \in ActiveAttendance(response.student_prn) :
                        a.scan_source = "qr_scan"}) > 4
    /\ response.conflicts # <<>>
    /\ response.trust_score < 100

\* the positions of the conflict in the list
Occurrences(conflicts, conflict) ==
    {i \in DOMAIN conflicts : conflicts[i] = conflict}

\* C20: the conflict list get_canonical_status returns holds
\* CERTIFICATE_WITHOUT_ATTENDANCE (HIGH) exactly when the student has a
\* certificate that is not revoked and no non-invalidated attendance row,
\* CERTIFICATE_WITHOUT_REGISTRATION (MEDIUM) exactly when the student has a
\* certificate that is not revoked and no ticket, and
\* ATTENDANCE_WITHOUT_REGISTRATION (LOW) exactly when the student has a
\* non-invalidated attendance row and no ticket; each at most once.
C20_ConflictsMatchSources ==
    response.op = "status" =>
        LET prn == response.student_prn
            active == ActiveCertificatesOf(prn) # {}
            attended == ActiveAttendance(prn) # {}
            registered == HasTicket(prn)
            count(conflict) ==
                Cardinality(Occurrences(response.conflicts, conflict))
        IN /\ count(CERTIFICATE_WITHOUT_ATTENDANCE)
                 = (IF active /\ ~attended THEN 1 ELSE 0)
           /\ count(CERTIFICATE_WITHOUT_REGISTRATION)
                 = (IF active /\ ~registered THEN 1 ELSE 0)
           /\ count(ATTENDANCE_WITHOUT_REGISTRATION)
                 = (IF attended /\ ~registered THEN 1 ELSE 0)

\* C21: the conflict list get_canonical_status returns holds
\* MULTIPLE_SCANS_SAME_DAY (MEDIUM) only when two non-invalidated attendance
\* rows of the student carry the same day_number, and always when two of
\* them carry the same day_number that is not missing; a row without
\* day_number beside a row of another day does not bring it.
C21_MultipleScansNeedSharedDay ==
    response.op = "status" =>
        LET att == ActiveAttendance(response.student_prn)
            listed == Occurrences(response.conflicts,
                                  MULTIPLE_SCANS_SAME_DAY) # {}
        IN /\ listed =>
                  \E a, b \in att :
                      a.id # b.id /\ a.day_number = b.day_number
           /\ (\E a, b \in att : /\ a.id # b.id
                                  /\ a.day_number # NoDay
                                  /\ a.day_number = b.day_number)
                  => listed

\* the attendee certificates of the student that are not revoked
ActiveAttendeeCertificates(prn) ==
    {c \in certificates : /\ c.student_prn = prn
                          /\ ~c.revoked
                          /\ c.role_type = "attendee"}

\* the alerts of the report that have the type
AlertsOfType(report, type) == {a \in report.fraud_alerts : a.type = type}

\* C22: the report of detect_fraud holds a DUPLICATE_CERTIFICATE alert for
\* a student, of severity HIGH, exactly when the student holds more than
\* one attendee certificate of the event that is not revoked.
C22_DuplicateAlertCountsActive ==
    response.op = "fraud" =>
        \A prn \in Students :
            LET alerted == {a \in AlertsOfType(response,
                                               "DUPLICATE_CERTIFICATE") :
                               a.student_prn = prn}
            IN /\ alerted # {}
                    <=> Cardinality(ActiveAttendeeCertificates(prn)) > 1
               /\ \A a \in alerted : a.severity = "HIGH"

\* C23: the report of detect_fraud holds a BULK_UPLOAD_ANOMALY alert for a
\* minute, of severity LOW, exactly when more than 100 bulk_upload
\* attendance rows of the event were stored in that minute: 100 rows in
\* one minute bring none.
C23_BulkAlertAboveHundred ==
    response.op = "fraud" =>
        LET alerts == AlertsOfType(response, "BULK_UPLOAD_ANOMALY")
            uploads(minute) ==
                {a \in attendance : /\ a.scan_source = "bulk_upload"
                                    /\ MinuteOf(a.scanned_at) = minute}
        IN /\ \A a \in alerts : /\ a.severity = "LOW"
                                /\ Cardinality(uploads(a.minute)) > 100
           /\ \A b \in attendance :
                  Cardinality(uploads(MinuteOf(b.scanned_at))) > 100
                      => \E a \in alerts : a.minute = MinuteOf(b.scanned_at)

\* C23 happens: a scan of an event with 101 bulk_upload rows in one minute
\* reports the minute
C23_HundredAndOneUploads ==
    /\ response.op = "fraud"
    /\ \E a \in AlertsOfType(response, "BULK_UPLOAD_ANOMALY") :
           Cardinality(BulkUploads(a.minute)) = 101

\* the certificates of the event issued for a role (student_prn NULL)
RoleCertificates == {c \in certificates : c.student_prn = NoStudent}

\* C24: no alert of the report of detect_fraud is about a role-based
\* certificate, whenever the certificate was issued; an event whose student
\* certificates and attendance raise no alert gets a report of 0 alerts.
C24_RoleCertificatesRaiseNoAlert ==
    response.op = "fraud" =>
        /\ \A a \in response.fraud_alerts :
               /\ a.student_prn # NoStudent
               /\ a.certificate_ids \cap Ids(RoleCertificates) = {}
        /\ response.summary.total_alerts
               = Cardinality({a \in response.fraud_alerts :
                                 a.student_prn # NoStudent})

\* C25: get_event_conflicts ends without error; its list holds one entry
\* for each student for whom get_canonical_status returns conflicts, with
\* the student's identifier, status, conflicts and trust score, and no
\* other entry: none for a student without conflicts, none without a
\* student.
C25_OneEntryPerConflictedStudent ==
    response.op = "conflicts" =>
        /\ response.status = 200
        /\ \A e \in response.conflicts :
               /\ e.student_prn \in Students
               /\ e.conflicts # <<>>
               /\ \E r \in StatusResults(e.student_prn) :
                      e = ConflictEntry(r)
               /\ \A d \in response.conflicts :
                      d.student_prn = e.student_prn => d = e
        /\ \A prn \in Students :
               (\A r \in StatusResults(prn) : r.conflicts # <<>>)
                   => \E e \in response.conflicts : e.student_prn = prn

\* the students whose records the request of the exchange names: the
\* holder of the certificate revoked, the student of the attendance row
\* invalidated, the students of the actions of the batch
Targets(exchange) ==
    IF exchange.op = "revoke" /\ exchange.status = 200
    THEN {RowById(certificates, exchange.certificate_id).student_prn}
    ELSE IF exchange.op = "invalidate" /\ exchange.status = 200
    THEN {RowById(attendance, exchange.attendance_id).student_prn}
    ELSE IF exchange.op = "bulk"
    THEN {exchange.actions[i].student_prn : i \in DOMAIN exchange.actions}
    ELSE {}

\* C26: a revocation, an invalidation or a batch leaves unchanged what
\* get_canonical_status can return for every student the request does not
\* name.
C26_OtherStudentsUnchanged ==
    [][response'.op \in {"revoke", "invalidate", "bulk"}
          => \A prn \in Students \ Targets(response') :
                 StatusResults(prn)' = StatusResults(prn)]_vars

\* C26 happens: a batch has revoked the certificate of s1 while s2 holds
\* an active certificate
C26_RevokedBesideAnother ==
    /\ response.op = "bulk" /\ response.status = 200
    /\ response.actions =
           <<[student_prn |-> "s1", action |-> "revoke_certificate"]>>
    /\ response.successful = 1
    /\ \E c \in CertificatesOf("s1") :
           c.revoked /\ c.revocation_reason = DefaultBulkReason
    /\ ActiveCertificatesOf("s2") # {}

\* C27: the changes get_change_history returns for a student hold every
\* audit row recorded for the student, one revocation entry per revoked
\* certificate and one invalidation entry per invalidated attendance row
\* of the student, and their timestamps never increase along the list.
C27_HistoryCompleteLatestFirst ==
    (response.op = "history" /\ eventExists) =>
        LET prn == response.student_prn
            changes == response.changes
            entries(action_type, ref, timestamp) ==
                {k \in DOMAIN changes :
                    /\ changes[k].action_type = action_type
                    /\ changes[k].ref = ref
                    /\ changes[k].timestamp = timestamp}
        IN /\ \A i \in DOMAIN auditLogs :
                  auditLogs[i].student_prn = prn =>
                      \E k \in entries("audit", auditLogs[i].ref,
                                        auditLogs[i].timestamp) :
                          changes[k].action = auditLogs[i].action_type
           /\ \A c \in certificates :
                  (c.student_prn = prn /\ c.revoked) =>
                      Cardinality(entries("revocation", c.id,
                                          c.revoked_at)) = 1
           /\ \A a \in attendance :
                  (a.student_prn = prn /\ a.invalidated) =>
                      Cardinality(entries("invalidation", a.id,
                                          a.invalidated_at)) = 1
           /\ \A k \in 1..(Len(changes) - 1) :
                  changes[k].timestamp >= changes[k + 1].timestamp

\* C28: once a revoked certificate has been verified through
\* verify_certificate, the report of detect_fraud holds a
\* REVOKED_STILL_IN_USE alert (HIGH) for the certificate: the verification
\* leaves the certificate_verified audit row the rule reads.
C28_VerifiedRevokedIsReported ==
    [][(response'.op = "verify" /\ response'.revoked)
          => /\ \E a \in detect_revoked_usage' :
                    /\ a.severity = "HIGH"
                    /\ a.certificate_ids = {response'.certificate_id}
             /\ \E i \in DOMAIN auditLogs' :
                    /\ auditLogs'[i].action_type = "certificate_verified"
                    /\ auditLogs'[i].ref = response'.certificate_id]_vars

\* C29: once a batch has reported success for a revoke_certificate action
\* for a student, the student holds no active certificate: every result
\* get_canonical_status can return has has_certificate false and a status
\* other than CERTIFIED, whatever number of certificates the student held.
C29_BatchRevokeLeavesNoneActive ==
    [][(response'.op = "bulk" /\ response'.status = 200)
          => \A prn \in Students :
                 (\E i \in DOMAIN response'.details :
                     /\ response'.details[i].student_prn = prn
                     /\ response'.details[i].action = "revoke_certificate"
                     /\ response'.details[i].status = "success")
                 => \A r \in StatusResults(prn)' :
                        /\ ~r.has_certificate
                        /\ r.canonical_status # CERTIFIED]_vars

\* C30: when two bulk-resolve requests of add_attendance actions have
\* been served, together or one action after the other in one batch, a
\* registered student they name has exactly one non-invalidated attendance
\* row (the one the student had, or else one row created) and no
\* MULTIPLE_SCANS_SAME_DAY conflict.
C30_ConcurrentAddCreatesOneRecord ==
    (\A i \in DOMAIN sessions : sessions[i].pc = "done") =>
        \A prn \in tickets :
            (\E i \in DOMAIN sessions : \E k \in DOMAIN sessions[i].actions :
                sessions[i].actions[k].student_prn = prn)
            => /\ Cardinality(ActiveAttendance(prn)) = 1
               /\ \A r \in StatusResults(prn) :
                      Occurrences(r.conflicts, MULTIPLE_SCANS_SAME_DAY) = {}

====
